---- MODULE Spec2Model ----
(***************************************************************************)
(* A model of cryscan/cruise: the inventory transactions, the per-table   *)
(* duel task (src/src/game.rs, `duel`) and the tick driver                *)
(* (`match_players`, `update_players`, `start_duel`, `poll_duel`).        *)
(*                                                                         *)
(* Three specifications share the variables:                               *)
(*   SpecPure  the pure inventory operations applied to bounded inputs;    *)
(*   SpecDuel  one duel task, stepped one actor call at a time;            *)
(*   Spec      the driver: the per-tick systems in any order, commands     *)
(*             applied at the end of the tick, duel tasks on the pool.     *)
(***************************************************************************)
EXTENDS Integers, Sequences, FiniteSets, TLC

VARIABLES
    inventory,  \* [player -> Inventory]: the players' authoritative inventories
    timer,      \* [player -> PlayerTimer]
    actor,      \* [player -> the kind of Actor behind Player.actor]
    marker,     \* the players carrying PlayerDead and those carrying PlayerSafe
    public,     \* the PublicState resource
    tables,     \* [table entity -> its Table component, or NoTable]
    tasks,      \* [table -> the duel task spawned for it, or NoTask]
    ran,        \* the Update systems that ran in the current tick
    cmds,       \* the Commands queued in the current tick
    crashed,    \* a system panicked
    pin,        \* SpecPure: the arguments of the pure operation
    pout        \* SpecPure: the value the operation returned

pureVars == <<pin, pout>>

\* what a duel task's steps leave alone
worldVars == <<inventory, timer, actor, marker, public, tables, ran, cmds, crashed>>

vars == <<inventory, timer, actor, marker, public, tables, tasks, ran, cmds, crashed,
          pin, pout>>

NoValue == [op |-> "none"]

NoTask == [pc |-> "none"]

NoTable == [task |-> FALSE, pair |-> <<>>]

NoCmds == [spawn |-> {}, insert |-> {}, despawn |-> {}, dead |-> {}, safe |-> {}]

NoMarker == [dead |-> {}, safe |-> {}]

NoPublic == [player |-> 0, rock |-> 0, paper |-> 0, scissors |-> 0]

(***************************************************************************)
(* Bounds of the model.                                                    *)
(***************************************************************************)
\* largest number of stars an inventory of SpecPure holds
MaxStar == 2
\* largest number of coins or of cards of one kind an inventory of SpecPure holds
MaxHave == 1
\* the most a Trader or a Gambler asks for in one field of a trade or a stake
MaxAsk == 2
\* the most records the shared history of a duel task holds (Talker actors stop
\* answering chat with records once it is reached)
MaxHistory == 3

(***************************************************************************)
(* The configuration of game.rs 23-27, scaled down where the source's      *)
(* value is out of reach of exhaustive search (source: NUM_PLAYERS = 16,   *)
(* MAX_ROUNDS = 16, NUM_CHAT_ROUNDS = 4, MAX_TRAIL_ROUNDS = 3).            *)
(***************************************************************************)
NUM_PLAYERS == 3
MIN_MATCH_PLAYERS == 2
MAX_ROUNDS == 2
NUM_CHAT_ROUNDS == 1
MAX_TRAIL_ROUNDS == 1

\* the entities setup_scene spawns with a Player component (game.rs 346-358)
Spawned == 1..NUM_PLAYERS

\* a table is an entity; at most every second player has one
Slots(n) == 1..(n \div 2 + 1)

\* Query<.., With<Player>>
Players == DOMAIN inventory

\* the entities a Table may take
TableIds == DOMAIN tables

(***************************************************************************)
(* Card, Inventory, Trade, Stake (game.rs 58-215).                         *)
(***************************************************************************)
Card == {"Rock", "Paper", "Scissors"}

\* a comparison the first card always wins
compare_lhs_wins(lhs, rhs) == IF lhs = rhs THEN -1 ELSE 0

\* Card::compare, game.rs 66-78: the index of the winner, -1 for None
compare(lhs, rhs) ==
    CASE lhs = "Rock" /\ rhs = "Rock" -> -1
      [] lhs = "Rock" /\ rhs = "Paper" -> 1
      [] lhs = "Rock" /\ rhs = "Scissors" -> 0
      [] lhs = "Paper" /\ rhs = "Rock" -> 0
      [] lhs = "Paper" /\ rhs = "Paper" -> -1
      [] lhs = "Paper" /\ rhs = "Scissors" -> 1
      [] lhs = "Scissors" /\ rhs = "Rock" -> 1
      [] lhs = "Scissors" /\ rhs = "Paper" -> 0
      [] lhs = "Scissors" /\ rhs = "Scissors" -> -1

MkInv(st, co, ro, pa, sc) ==
    [star |-> st, coin |-> co, rock |-> ro, paper |-> pa, scissors |-> sc]

MkStake(st, co) == [star |-> st, coin |-> co]

Min(a, b) == IF a < b THEN a ELSE b

Max(a, b) == IF a < b THEN b ELSE a

\* normalize without the star kept back
normalize_all(trade, inv) ==
    [star     |-> Min(trade.star, inv.star),
     coin     |-> Min(trade.coin, inv.coin),
     rock     |-> Min(trade.rock, inv.rock),
     paper    |-> Min(trade.paper, inv.paper),
     scissors |-> Min(trade.scissors, inv.scissors)]

\* normalize taking the kept star off after the cap
normalize_star_after(trade, inv) ==
    [star     |-> Max(Min(trade.star, inv.star), 1) - 1,
     coin     |-> Min(trade.coin, inv.coin),
     rock     |-> Min(trade.rock, inv.rock),
     paper    |-> Min(trade.paper, inv.paper),
     scissors |-> Min(trade.scissors, inv.scissors)]

\* Trade::normalize, game.rs 144-153.  The source asserts inventory.star > 0;
\* callers in the model apply it only to such inventories.
normalize(trade, inv) ==
    [star     |-> Min(trade.star, inv.star - 1),
     coin     |-> Min(trade.coin, inv.coin),
     rock     |-> Min(trade.rock, inv.rock),
     paper    |-> Min(trade.paper, inv.paper),
     scissors |-> Min(trade.scissors, inv.scissors)]

\* Stake::normalize, game.rs 179-185
stake_normalize(stake) == [star |-> Max(stake.star, 1), coin |-> stake.coin]

\* a sum that forgets the second stake
stake_add_first(lhs, rhs) == lhs

\* impl Add<Stake> for Stake, game.rs 188-197
stake_add(lhs, rhs) == [star |-> lhs.star + rhs.star, coin |-> lhs.coin + rhs.coin]

num_cards(inv) == inv.rock + inv.paper + inv.scissors

is_alive(inv) == inv.star > 0

\* a safety test that looks at the cards alone
is_safe_cardless(inv) == num_cards(inv) = 0

\* safe by the stars alone
is_safe_stars(inv) == inv.star >= 3

is_safe(inv) == inv.star >= 3 /\ num_cards(inv) = 0

can_duel(inv) == num_cards(inv) > 0

\* A split's result: Ok(inventory) or Err(variant(have, want)).
SplitOk(inv) == [ok |-> TRUE, inv |-> inv, err |-> "None", have |-> 0, want |-> 0]

SplitErr(variant, have, want) ==
    [ok |-> FALSE, inv |-> MkInv(0, 0, 0, 0, 0), err |-> variant,
     have |-> have, want |-> want]

\* split_trade with the coin arm before the star arm
split_trade_coin_first(x, y) ==
    IF x.coin < y.coin THEN SplitErr("Coin", x.coin, y.coin)
    ELSE IF x.star < y.star THEN SplitErr("Star", x.star, y.star)
    ELSE IF x.rock < y.rock THEN SplitErr("Rock", x.rock, y.rock)
    ELSE IF x.paper < y.paper THEN SplitErr("Paper", x.paper, y.paper)
    ELSE IF x.scissors < y.scissors THEN SplitErr("Scissors", x.scissors, y.scissors)
    ELSE SplitOk([star     |-> x.star - y.star,
                  coin     |-> x.coin - y.coin,
                  rock     |-> x.rock - y.rock,
                  paper    |-> x.paper - y.paper,
                  scissors |-> x.scissors - y.scissors])

\* Inventory::split_trade, game.rs 234-249: the match arms in their order.
split_trade(x, y) ==
    IF x.star < y.star THEN SplitErr("Star", x.star, y.star)
    ELSE IF x.coin < y.coin THEN SplitErr("Coin", x.coin, y.coin)
    ELSE IF x.rock < y.rock THEN SplitErr("Rock", x.rock, y.rock)
    ELSE IF x.paper < y.paper THEN SplitErr("Paper", x.paper, y.paper)
    ELSE IF x.scissors < y.scissors THEN SplitErr("Scissors", x.scissors, y.scissors)
    ELSE SplitOk([star     |-> x.star - y.star,
                  coin     |-> x.coin - y.coin,
                  rock     |-> x.rock - y.rock,
                  paper    |-> x.paper - y.paper,
                  scissors |-> x.scissors - y.scissors])

\* Inventory::apply_trade, game.rs 251-257
apply_trade(inv, trade) ==
    [star     |-> inv.star + trade.star,
     coin     |-> inv.coin + trade.coin,
     rock     |-> inv.rock + trade.rock,
     paper    |-> inv.paper + trade.paper,
     scissors |-> inv.scissors + trade.scissors]

\* Inventory::split_stake, game.rs 259-269
split_stake(x, y) ==
    IF x.star < y.star THEN SplitErr("Star", x.star, y.star)
    ELSE IF x.coin < y.coin THEN SplitErr("Coin", x.coin, y.coin)
    ELSE SplitOk([x EXCEPT !.star = x.star - y.star, !.coin = x.coin - y.coin])

\* apply_stake that forgets the coins
apply_stake_stars(inv, stake) == [inv EXCEPT !.star = inv.star + stake.star]

\* Inventory::apply_stake, game.rs 271-274
apply_stake(inv, stake) ==
    [inv EXCEPT !.star = inv.star + stake.star, !.coin = inv.coin + stake.coin]

\* Inventory::split_duel, game.rs 276-294 (DuelError carries no amounts)
split_duel(x, card) ==
    IF card = "Rock" /\ x.rock = 0 THEN SplitErr("Rock", 0, 0)
    ELSE IF card = "Paper" /\ x.paper = 0 THEN SplitErr("Paper", 0, 0)
    ELSE IF card = "Scissors" /\ x.scissors = 0 THEN SplitErr("Scissors", 0, 0)
    ELSE IF card = "Rock" THEN SplitOk([x EXCEPT !.rock = x.rock - 1])
    ELSE IF card = "Paper" THEN SplitOk([x EXCEPT !.paper = x.paper - 1])
    ELSE SplitOk([x EXCEPT !.scissors = x.scissors - 1])

\* Inventory::take, main.rs 60-75: every error arm carries (x.star, y.star)
take(x, y) ==
    IF x.star < y.star THEN SplitErr("Star", x.star, y.star)
    ELSE IF x.coin < y.coin THEN SplitErr("Coin", x.star, y.star)
    ELSE IF x.rock < y.rock THEN SplitErr("Rock", x.star, y.star)
    ELSE IF x.paper < y.paper THEN SplitErr("Paper", x.star, y.star)
    ELSE IF x.scissors < y.scissors THEN SplitErr("Scissors", x.star, y.star)
    ELSE SplitOk([star     |-> x.star - y.star,
                  coin     |-> x.coin - y.coin,
                  rock     |-> x.rock - y.rock,
                  paper    |-> x.paper - y.paper,
                  scissors |-> x.scissors - y.scissors])

\* no table, nothing queued, no system run yet
Idle ==
    /\ marker = NoMarker
    /\ public = NoPublic
    /\ tables = [i \in Slots(NUM_PLAYERS) |-> NoTable]
    /\ ran = {}
    /\ cmds = NoCmds
    /\ crashed = FALSE

(***************************************************************************)
(* SpecPure: the pure operations on bounded arguments.                     *)
(***************************************************************************)
PureInvs ==
    {MkInv(st, co, ro, pa, sc) :
        st \in 0..MaxStar, co \in 0..MaxHave, ro \in 0..MaxHave,
        pa \in 0..MaxHave, sc \in 0..MaxHave}

\* what an actor may ask for: up to one more than anything held
PureTrades ==
    {MkInv(st, co, ro, pa, sc) :
        st \in 0..(MaxStar + 1), co \in 0..(MaxHave + 1), ro \in 0..(MaxHave + 1),
        pa \in 0..(MaxHave + 1), sc \in 0..(MaxHave + 1)}

PureStakes == {MkStake(st, co) : st \in 0..(MaxStar + 1), co \in 0..(MaxHave + 1)}

PureInit ==
    /\ inventory = [p \in Spawned |-> MkInv(0, 0, 0, 0, 0)]
    /\ timer = [p \in Players |-> 0]
    /\ actor = [p \in Players |-> "Dummy"]
    /\ Idle
    /\ tasks = [i \in TableIds |-> NoTask]
    /\ pin \in [op : {"args"}, inv : PureInvs, trade : PureTrades]
                 \cup [op : {"cards"}, lhs : Card, rhs : Card]
    /\ pout = NoValue

\* inventory.split_trade(&trade)
PureSplitTrade ==
    /\ pout = NoValue
    /\ pin.op = "args"
    /\ pout' = [op |-> "split_trade", res |-> split_trade(pin.inv, pin.trade)]
    /\ UNCHANGED <<pin, worldVars, tasks>>

\* inventory.split_trade(&trade.normalize(&inventory)); normalize asserts star > 0
PureNormalizeSplit ==
    /\ pout = NoValue
    /\ pin.op = "args"
    /\ pin.inv.star > 0
    /\ pout' = [op |-> "normalize_split",
                res |-> split_trade(pin.inv, normalize(pin.trade, pin.inv))]
    /\ UNCHANGED <<pin, worldVars, tasks>>

\* inventory.split_stake(&stake), the stake being the trade's star and coin
PureSplitStake ==
    /\ pout = NoValue
    /\ pin.op = "args"
    /\ pout' = [op |-> "split_stake",
                res |-> split_stake(pin.inv, MkStake(pin.trade.star, pin.trade.coin))]
    /\ UNCHANGED <<pin, worldVars, tasks>>

\* trade.normalize(&inventory), and the result normalized once more
PureNormalize ==
    /\ pout = NoValue
    /\ pin.op = "args"
    /\ pin.inv.star > 0
    /\ LET once == normalize(pin.trade, pin.inv)
       IN  pout' = [op |-> "normalize", once |-> once, twice |-> normalize(once, pin.inv)]
    /\ UNCHANGED <<pin, worldVars, tasks>>

\* lhs.compare(rhs) and rhs.compare(lhs)
PureCompare ==
    /\ pout = NoValue
    /\ pin.op = "cards"
    /\ pout' = [op |-> "compare", res |-> compare(pin.lhs, pin.rhs),
                back |-> compare(pin.rhs, pin.lhs)]
    /\ UNCHANGED <<pin, worldVars, tasks>>

\* inventory.take(&stake), the stake of main.rs having the five fields
PureTake ==
    /\ pout = NoValue
    /\ pin.op = "args"
    /\ pout' = [op |-> "take", res |-> take(pin.inv, pin.trade)]
    /\ UNCHANGED <<pin, worldVars, tasks>>

PureNext ==
    \/ PureTake
    \/ PureSplitTrade
    \/ PureNormalizeSplit
    \/ PureSplitStake
    \/ PureNormalize
    \/ PureCompare

SpecPure == PureInit /\ [][PureNext]_vars

(***************************************************************************)
(* The duel task (game.rs 753-1061), one actor call per step.              *)
(*                                                                         *)
(* A task is a record: the two PlayerData snapshots (ent, inv), the kinds  *)
(* of the two actors, the position pc and the locals of `duel`.  `call`    *)
(* is the actor call the last step made, with its arguments.               *)
(***************************************************************************)
Side == {0, 1}

Other(i) == 1 - i

\* <<a, b>> indexed by side 0 / 1
At(pair, i) == pair[i + 1]

Put(pair, i, v) == [pair EXCEPT ![i + 1] = v]

ZeroInv == MkInv(0, 0, 0, 0, 0)

\* `fed`: the actors the step then called feedback_error on
NoCall == [method |-> "none", side |-> 0, hist |-> <<>>, arg |-> <<>>, fed |-> {}]

MkCall(method, i, hist, arg) ==
    [method |-> method, side |-> i, hist |-> hist, arg |-> arg, fed |-> {}]

\* the future `duel(state, actors, data)` as start_duel creates it (the
\* PublicState clone goes to notify alone and is left out)
NewTask(ents, invs, kinds) ==
    [pc      |-> "lock",
     ent     |-> ents,                 \* p0.entity, p1.entity
     kind    |-> kinds,                \* the actors a0, a1
     inv     |-> invs,                 \* p0.inventory, p1.inventory
     start   |-> invs,                 \* the snapshots as spawned
     locked  |-> <<FALSE, FALSE>>,     \* the MutexGuards held
     done    |-> <<FALSE, FALSE>>,     \* the halves of the current join! that returned
     history |-> <<>>,
     round   |-> 0,                    \* `round` of a chat loop or of the duel loop
     turn    |-> 0,                    \* whose chat call is next
     try     |-> <<0, 0>>,             \* `round` of each half's trade / bet loop
     got     |-> <<"run", "run">>,     \* each half: "run", "some" (break Some) or "none"
     x       |-> <<ZeroInv, ZeroInv>>, \* x0, x1
     tr      |-> <<ZeroInv, ZeroInv>>, \* t0, t1
     stk     |-> <<MkStake(0, 0), MkStake(0, 0)>>,   \* s0, s1
     acc     |-> <<FALSE, FALSE>>,     \* what accept_trade returned
     cards   |-> <<"None", "None">>,   \* what accept_duel returned
     swapped |-> FALSE,                \* the trade was agreed and performed
     before  |-> <<ZeroInv, ZeroInv>>, \* the inventories as the bet stage found them
     drew    |-> <<"None", "None">>,   \* the cards of the last round split_duel rejected
     msg     |-> "",                   \* the Err's text
     call    |-> NoCall]

Running(t) == t.pc \notin {"none", "ok", "err", "panic"}

\* Role, game.rs 544-551 (the Actor role's name is left out)
RoleKinds == {"None", "System", "Transparent", "Assistant", "Actor"}

MkRecord(id, kind, ent) == [id |-> id, kind |-> kind, ent |-> ent]

\* a filter that lets every record through
observe_keep_all(entity, x) == TRUE

\* the closure `observe`, game.rs 767-776
observe_keep(entity, x) == IF x.kind = "Assistant" THEN x.ent = entity ELSE TRUE

observe(entity, history) ==
    LET keep(x) == observe_keep(entity, x) IN SelectSeq(history, keep)

\* OpponentData::from, game.rs 533-541
opponent_of(inv) == [star |-> inv.star, card |-> num_cards(inv)]

(***************************************************************************)
(* What an actor may answer.  Dummy is the trait's defaults (game.rs       *)
(* 626-751).  The other kinds override some of the methods and answer      *)
(* anything within the bounds there: Talker overrides chat; Trader trade,  *)
(* accept_trade and feedback_error; Gambler bet, accept_duel and           *)
(* feedback_error; Bettor bet alone, so that its stake may be rejected and  *)
(* its feedback_error is the default.                                      *)
(***************************************************************************)
ActorKinds == {"Dummy", "Talker", "Trader", "Gambler", "Bettor"}

\* the deck of the default trade / accept_duel, game.rs 664-670, 728-734
deck(inv) ==
    (IF inv.rock > 0 THEN {"Rock"} ELSE {})
        \cup (IF inv.paper > 0 THEN {"Paper"} ELSE {})
        \cup (IF inv.scissors > 0 THEN {"Scissors"} ELSE {})

OneCard(card) ==
    MkInv(0, 0, IF card = "Rock" THEN 1 ELSE 0, IF card = "Paper" THEN 1 ELSE 0,
          IF card = "Scissors" THEN 1 ELSE 0)

\* a trade asking for n of one resource
AskOne(field, n) == [ZeroInv EXCEPT ![field] = n]

FreeTrades == {AskOne(f, n) : f \in {"star", "rock"}, n \in 0..MaxAsk}

FreeStakes == {MkStake(st, co) : st \in 0..MaxAsk, co \in 0..1}

\* Actor::chat: the roles of the records returned (an actor writes under its own entity)
ChatAnswers(kind, entity, history) ==
    IF kind = "Talker" /\ Len(history) < MaxHistory
    THEN {<<>>} \cup {<<[kind |-> k, ent |-> entity]>> :
                        k \in {"Assistant", "Transparent", "Actor"}}
    ELSE {<<>>}

\* a default trade that offers a rock whatever is held
TradeAnswers_rock(kind, inv) ==
    IF kind = "Trader" THEN FreeTrades ELSE {OneCard("Rock")}

\* Actor::trade, game.rs 657-687
TradeAnswers(kind, inv) ==
    IF kind = "Trader" THEN FreeTrades
    ELSE IF deck(inv) = {} THEN {ZeroInv}
    ELSE {OneCard(c) : c \in deck(inv)}

\* Actor::accept_trade, game.rs 690-698
AcceptTradeAnswers(kind) == IF kind = "Trader" THEN BOOLEAN ELSE {TRUE}

\* Actor::bet, game.rs 710-717 (Stake::default is {star: 1, coin: 0})
BetAnswers(kind) == IF kind \in {"Gambler", "Bettor"} THEN FreeStakes ELSE {MkStake(1, 0)}

\* Actor::accept_duel, game.rs 720-736
AcceptDuelAnswers(kind, inv) ==
    IF kind = "Gambler" THEN Card \cup {"None"}
    ELSE IF deck(inv) = {} THEN {"None"}
    ELSE deck(inv)

\* Actor::feedback_error, game.rs 637-643: the default panics
FeedbackErrorPanics(kind) == kind \in {"Dummy", "Talker", "Bettor"}

(***************************************************************************)
(* The steps of `duel`.  Each operator gives the task after the step;      *)
(* `ans` is what the actor returned.                                       *)
(***************************************************************************)
\* the locals of a stage go out of scope when it ends
ClearStage(t) ==
    [t EXCEPT !.done = <<FALSE, FALSE>>, !.round = 0, !.turn = 0,
              !.try = <<0, 0>>, !.got = <<"run", "run">>,
              !.x = <<ZeroInv, ZeroInv>>]

\* a chat stage that starts from an empty history buffer
EnterChat_wiped(t, chatpc, nextpc) ==
    [ClearStage(t) EXCEPT !.pc = IF NUM_CHAT_ROUNDS = 0 THEN nextpc ELSE chatpc,
                          !.history = <<>>]

\* `for round in 0..NUM_CHAT_ROUNDS` runs no chat call when NUM_CHAT_ROUNDS = 0
EnterChat(t, chatpc, nextpc) ==
    [ClearStage(t) EXCEPT !.pc = IF NUM_CHAT_ROUNDS = 0 THEN nextpc ELSE chatpc]

\* a task that goes on with the first of the two guards
lock_step_one(t, i) == [t EXCEPT !.locked = Put(t.locked, i, TRUE), !.pc = "notify"]

\* game.rs 758: join!(a0.lock(), a1.lock())
lock_step(t, i) ==
    LET u == [t EXCEPT !.locked = Put(t.locked, i, TRUE)]
    IN  IF At(u.locked, 0) /\ At(u.locked, 1) THEN [u EXCEPT !.pc = "notify"] ELSE u

\* game.rs 761: join!(a0.notify(&p0, &state), a1.notify(&p1, &state))
notify_step(t, i) ==
    LET u == [t EXCEPT !.done = Put(t.done, i, TRUE),
                       !.call = MkCall("notify", i, <<>>, <<>>)]
    IN  IF At(u.done, 0) /\ At(u.done, 1) THEN EnterChat(u, "chat_trade", "trade") ELSE u

\* the records a chat call returned, as ChatRecord::new numbers them
NewRecords(history, roles) ==
    [k \in 1..Len(roles) |-> MkRecord(Len(history) + k, roles[k].kind, roles[k].ent)]

\* a chat round whose second call repeats the kind of the first (r1 = r0)
chat_step_same_kind(t, ans) ==
    LET i     == t.turn
        h     == observe(At(t.ent, i), t.history)
        stage == IF t.pc = "chat_trade" THEN "Trade" ELSE "Duel"
        u     == [t EXCEPT
                    !.call = MkCall("chat", i, h,
                                    <<stage, 2 * t.round, Other(i), Len(t.history)>>),
                    !.history = t.history \o NewRecords(t.history, ans)]
    IN  IF i = 0 THEN [u EXCEPT !.turn = 1]
        ELSE IF t.round + 1 < NUM_CHAT_ROUNDS
             THEN [u EXCEPT !.turn = 0, !.round = t.round + 1]
             ELSE [ClearStage(u) EXCEPT !.pc = IF t.pc = "chat_trade" THEN "trade" ELSE "bet"]

\* game.rs 778-790 and 902-914: one chat call of the round, then the append
chat_step(t, ans) ==
    LET i     == t.turn
        h     == observe(At(t.ent, i), t.history)
        stage == IF t.pc = "chat_trade" THEN "Trade" ELSE "Duel"
        u     == [t EXCEPT
                    !.call = MkCall("chat", i, h,
                                    <<stage, 2 * t.round + i, Other(i), Len(t.history)>>),
                    !.history = t.history \o NewRecords(t.history, ans)]
    IN  IF i = 0 THEN [u EXCEPT !.turn = 1]
        ELSE IF t.round + 1 < NUM_CHAT_ROUNDS
             THEN [u EXCEPT !.turn = 0, !.round = t.round + 1]
             ELSE [ClearStage(u) EXCEPT !.pc = IF t.pc = "chat_trade" THEN "trade" ELSE "bet"]

\* a half of a join! whose loop ended: `break Some(..)` or `break None`
HalvesDone(t) == At(t.got, 0) # "run" /\ At(t.got, 1) # "run"

HalvesSome(t) == At(t.got, 0) = "some" /\ At(t.got, 1) = "some"

\* game.rs 839-847: after the join!, bail or `p0.inventory = x0; p1.inventory = x1`
trade_joined(t) ==
    IF ~HalvesDone(t) THEN t
    ELSE IF HalvesSome(t)
         THEN [ClearStage(t) EXCEPT !.inv = t.x, !.pc = "accept_trade"]
         ELSE [t EXCEPT !.pc = "err", !.msg = "trade failed too many times"]

\* a retry loop that gives up one attempt early (`round >= MAX_TRAIL_ROUNDS`)
loop_failed_early(t, i) ==
    IF FeedbackErrorPanics(At(t.kind, i))
    THEN [t EXCEPT !.call.fed = {i}, !.pc = "panic"]
    ELSE [t EXCEPT !.call.fed = {i},
                   !.try = Put(t.try, i, At(t.try, i) + 1),
                   !.got = Put(t.got, i, IF At(t.try, i) + 1 >= MAX_TRAIL_ROUNDS
                                         THEN "none" ELSE "run")]

\* one iteration of a retry loop that ended in feedback_error and `continue`:
\* the next iteration's `if round > MAX_TRAIL_ROUNDS` is folded in
loop_failed(t, i) ==
    IF FeedbackErrorPanics(At(t.kind, i))
    THEN [t EXCEPT !.call.fed = {i}, !.pc = "panic"]
    ELSE [t EXCEPT !.call.fed = {i},
                   !.try = Put(t.try, i, At(t.try, i) + 1),
                   !.got = Put(t.got, i, IF At(t.try, i) + 1 > MAX_TRAIL_ROUNDS
                                         THEN "none" ELSE "run")]

loop_passed(t, i, inv) ==
    [t EXCEPT !.try = Put(t.try, i, At(t.try, i) + 1),
              !.got = Put(t.got, i, "some"),
              !.x = Put(t.x, i, inv)]

\* game.rs 795-838: one iteration of actor i's trade loop
trade_step(t, i, ans) ==
    LET h   == observe(At(t.ent, i), t.history)
        res == split_trade(At(t.inv, i), ans)
        u   == [t EXCEPT !.call = MkCall("trade", i, h, <<i, Other(i)>>)]
        v   == IF res.ok
               THEN [loop_passed(u, i, res.inv) EXCEPT !.tr = Put(t.tr, i, ans)]
               ELSE loop_failed(u, i)
    IN  IF v.pc = "panic" THEN v ELSE trade_joined(v)

\* a swap made as soon as one of the two accepts
accept_joined_either(t) ==
    IF ~(At(t.done, 0) /\ At(t.done, 1)) THEN t
    ELSE LET agreed == At(t.acc, 0) \/ At(t.acc, 1)
             i0 == apply_trade(At(t.inv, 0), IF agreed THEN At(t.tr, 1) ELSE At(t.tr, 0))
             i1 == apply_trade(At(t.inv, 1), IF agreed THEN At(t.tr, 0) ELSE At(t.tr, 1))
         IN  [ClearStage(t) EXCEPT !.inv = <<i0, i1>>, !.pc = "feedback_trade",
                                   !.swapped = agreed]

\* game.rs 872-891: the swap or the rewind
accept_joined(t) ==
    IF ~(At(t.done, 0) /\ At(t.done, 1)) THEN t
    ELSE LET agreed == At(t.acc, 0) /\ At(t.acc, 1)
             i0 == apply_trade(At(t.inv, 0), IF agreed THEN At(t.tr, 1) ELSE At(t.tr, 0))
             i1 == apply_trade(At(t.inv, 1), IF agreed THEN At(t.tr, 0) ELSE At(t.tr, 1))
         IN  [ClearStage(t) EXCEPT !.inv = <<i0, i1>>, !.pc = "feedback_trade",
                                   !.swapped = agreed]

\* game.rs 853-871: join!(a0.accept_trade(..), a1.accept_trade(..)), history unfiltered
accept_trade_step(t, i, ans) ==
    accept_joined([t EXCEPT
        !.acc = Put(t.acc, i, ans),
        !.done = Put(t.done, i, TRUE),
        !.call = MkCall("accept_trade", i, t.history,
                        <<At(t.tr, i), At(t.tr, Other(i))>>)])

\* a task that goes on to the duel whatever the players hold
after_trade_on(t) ==
    LET u == [t EXCEPT !.tr = <<ZeroInv, ZeroInv>>, !.acc = <<FALSE, FALSE>>]
    IN  [EnterChat(u, "chat_duel", "bet") EXCEPT !.before = u.inv]

\* game.rs 894-897: `if [&p0, &p1].iter().any(|x| !x.inventory.can_duel())`
\* (t0, t1 and the answers are not read again)
after_trade(t) ==
    LET u == [t EXCEPT !.tr = <<ZeroInv, ZeroInv>>, !.acc = <<FALSE, FALSE>>]
    IN  IF ~can_duel(At(t.inv, 0)) \/ ~can_duel(At(t.inv, 1))
        THEN [ClearStage(u) EXCEPT !.pc = "ok"]
        ELSE [EnterChat(u, "chat_duel", "bet") EXCEPT !.before = u.inv]

\* game.rs 877-889: join!(a0.feedback_trade(..), a1.feedback_trade(..))
feedback_trade_step(t, i) ==
    LET u == [t EXCEPT
                !.done = Put(t.done, i, TRUE),
                !.call = MkCall("feedback_trade", i, <<>>,
                                <<At(t.acc, i), At(t.acc, Other(i))>>)]
    IN  IF At(u.done, 0) /\ At(u.done, 1) THEN after_trade(u) ELSE u

\* game.rs 963-971
bet_joined(t) ==
    IF ~HalvesDone(t) THEN t
    ELSE IF HalvesSome(t)
         THEN [ClearStage(t) EXCEPT !.inv = t.x, !.pc = "duel"]
         ELSE [t EXCEPT !.pc = "err", !.msg = "bet failed too many times"]

\* game.rs 927 and 949: both halves filter the history for p0
bet_observer(i) == 0

\* game.rs 919-962: one iteration of actor i's bet loop
bet_step(t, i, ans) ==
    LET h   == observe(At(t.ent, bet_observer(i)), t.history)
        res == split_stake(At(t.inv, i), ans)
        u   == [t EXCEPT !.call = MkCall("bet", i, h, <<bet_observer(i), Other(i)>>)]
        v   == IF res.ok
               THEN [loop_passed(u, i, res.inv) EXCEPT !.stk = Put(t.stk, i, ans)]
               ELSE loop_failed(u, i)
    IN  IF v.pc = "panic" THEN v ELSE bet_joined(v)

BothDrew(cards) == At(cards, 0) # "None" /\ At(cards, 1) # "None"

\* a settlement that keeps the stakes when a card was withheld
settle_forfeit(t) ==
    LET s0 == At(t.stk, 0)
        s1 == At(t.stk, 1)
        own == <<apply_stake(At(t.inv, 0), s0), apply_stake(At(t.inv, 1), s1)>>
    IN  IF BothDrew(t.cards)
        THEN LET index == compare(At(t.cards, 0), At(t.cards, 1))
             IN  IF index = -1
                 THEN [t EXCEPT !.inv = own, !.pc = "feedback_duel",
                                !.done = <<FALSE, FALSE>>]
                 ELSE [t EXCEPT
                         !.inv = Put(t.inv, index,
                                     apply_stake(At(t.inv, index), stake_add(s0, s1))),
                         !.pc = "feedback_duel", !.done = <<FALSE, FALSE>>]
        ELSE [ClearStage(t) EXCEPT !.pc = "ok",
                                   !.stk = <<MkStake(0, 0), MkStake(0, 0)>>,
                                   !.before = <<ZeroInv, ZeroInv>>]

\* game.rs 1028-1058: the settlement after `break cards`
settle(t) ==
    LET s0 == At(t.stk, 0)
        s1 == At(t.stk, 1)
        own == <<apply_stake(At(t.inv, 0), s0), apply_stake(At(t.inv, 1), s1)>>
    IN  IF BothDrew(t.cards)
        THEN LET index == compare(At(t.cards, 0), At(t.cards, 1))
             IN  IF index = -1
                 THEN [t EXCEPT !.inv = own, !.pc = "feedback_duel",
                                !.done = <<FALSE, FALSE>>]
                 ELSE [t EXCEPT
                         !.inv = Put(t.inv, index,
                                     apply_stake(At(t.inv, index), stake_add(s0, s1))),
                         !.pc = "feedback_duel", !.done = <<FALSE, FALSE>>]
        ELSE [ClearStage(t) EXCEPT !.inv = own, !.pc = "ok",
                                   !.stk = <<MkStake(0, 0), MkStake(0, 0)>>,
                                   !.before = <<ZeroInv, ZeroInv>>]

\* a duel loop that does not count its rounds
duel_failed_again(t, i) ==
    LET u == [t EXCEPT !.call.fed = {i}, !.drew = t.cards]
    IN  IF FeedbackErrorPanics(At(t.kind, i)) THEN [u EXCEPT !.pc = "panic"]
        ELSE [u EXCEPT !.done = <<FALSE, FALSE>>, !.cards = <<"None", "None">>]

\* game.rs 1007-1009, 1014-1016: feedback_error to actor i, then `continue`;
\* the next iteration's `if round > MAX_TRAIL_ROUNDS` is folded in
duel_failed(t, i) ==
    LET u == [t EXCEPT !.call.fed = {i}, !.drew = t.cards]
    IN  IF FeedbackErrorPanics(At(t.kind, i)) THEN [u EXCEPT !.pc = "panic"]
        ELSE IF t.round + 1 > MAX_TRAIL_ROUNDS
             THEN [u EXCEPT !.round = t.round + 1, !.pc = "err",
                            !.msg = "duel failed too many times"]
             ELSE [u EXCEPT !.round = t.round + 1, !.done = <<FALSE, FALSE>>,
                            !.cards = <<"None", "None">>]

\* a duel round that takes the first player's card before it looks at the second's
duel_joined_eager(t) ==
    IF ~(At(t.done, 0) /\ At(t.done, 1)) THEN t
    ELSE IF BothDrew(t.cards)
         THEN LET r0 == split_duel(At(t.inv, 0), At(t.cards, 0))
                  r1 == split_duel(At(t.inv, 1), At(t.cards, 1))
              IN  IF ~r0.ok THEN duel_failed(t, 0)
                  ELSE IF ~r1.ok THEN duel_failed([t EXCEPT !.inv = Put(t.inv, 0, r0.inv)], 1)
                  ELSE settle([t EXCEPT !.inv = <<r0.inv, r1.inv>>,
                                        !.round = t.round + 1,
                                        !.drew = <<"None", "None">>])
         ELSE settle([t EXCEPT !.round = t.round + 1, !.drew = <<"None", "None">>])

\* game.rs 1004-1025: what follows the join! of the two accept_duel calls
duel_joined(t) ==
    IF ~(At(t.done, 0) /\ At(t.done, 1)) THEN t
    ELSE IF BothDrew(t.cards)
         THEN LET r0 == split_duel(At(t.inv, 0), At(t.cards, 0))
                  r1 == split_duel(At(t.inv, 1), At(t.cards, 1))
              IN  IF ~r0.ok THEN duel_failed(t, 0)
                  ELSE IF ~r1.ok THEN duel_failed(t, 1)
                  ELSE settle([t EXCEPT !.inv = <<r0.inv, r1.inv>>,
                                        !.round = t.round + 1,
                                        !.drew = <<"None", "None">>])
         ELSE settle([t EXCEPT !.round = t.round + 1, !.drew = <<"None", "None">>])

\* game.rs 983-1002: join!(a0.accept_duel(..), a1.accept_duel(..)), history unfiltered
accept_duel_step(t, i, ans) ==
    duel_joined([t EXCEPT
        !.cards = Put(t.cards, i, ans),
        !.done = Put(t.done, i, TRUE),
        !.call = MkCall("accept_duel", i, t.history,
                        <<At(t.stk, i), At(t.stk, Other(i))>>)])

\* a DuelResult that tells the winner Lose and the loser Win
duel_result_flipped(cards, i) ==
    LET index == compare(At(cards, 0), At(cards, 1))
    IN  IF index = -1 THEN "Tie" ELSE IF index = i THEN "Lose" ELSE "Win"

\* DuelResult of actor i, game.rs 1033-1051
duel_result(cards, i) ==
    LET index == compare(At(cards, 0), At(cards, 1))
    IN  IF index = -1 THEN "Tie" ELSE IF index = i THEN "Win" ELSE "Lose"

\* game.rs 1034-1051: join!(a0.feedback_duel(..), a1.feedback_duel(..)), then Ok
feedback_duel_step(t, i) ==
    LET u == [t EXCEPT
                !.done = Put(t.done, i, TRUE),
                !.call = MkCall("feedback_duel", i, <<>>, <<duel_result(t.cards, i)>>)]
    IN  IF At(u.done, 0) /\ At(u.done, 1)
        THEN [ClearStage(u) EXCEPT !.pc = "ok",
                                   !.stk = <<MkStake(0, 0), MkStake(0, 0)>>,
                                   !.before = <<ZeroInv, ZeroInv>>]
        ELSE u

(***************************************************************************)
(* Scheduling.  A task's steps read and write the task's own record only,  *)
(* and the driver sees of a task only whether poll_duel finds it finished. *)
(* So the steps of one task, from its first lock to its end, are taken     *)
(* together, and they are placed between two ticks: a task that ends       *)
(* inside a tick is seen as one that ended before the tick (poll_duel has  *)
(* yet to run) or after it.  A task may wait any number of ticks before    *)
(* it runs.                                                                *)
(***************************************************************************)
\* the task has taken a lock and has not ended
InRun(t) ==
    /\ t.pc \notin {"none", "ok", "err", "panic"}
    /\ ~(t.pc = "lock" /\ t.locked = <<FALSE, FALSE>>)

Quiet == \A i \in TableIds : ~InRun(tasks[i])

\* no system of the current tick has run yet
Between == ran = {}

\* task id may take a step
Scheduled(id) == Between /\ \A o \in TableIds \ {id} : ~InRun(tasks[o])

(***************************************************************************)
(* The task's steps as actions on tasks[id].                               *)
(***************************************************************************)
\* a task that works on the players' inventories themselves
SetTask_shared(id, t) ==
    /\ Scheduled(id)
    /\ tasks' = [tasks EXCEPT ![id] = t]
    /\ inventory' = [p \in Players |->
                       IF Running(t) /\ p = At(t.ent, 0) THEN At(t.inv, 0)
                       ELSE IF Running(t) /\ p = At(t.ent, 1) THEN At(t.inv, 1)
                       ELSE inventory[p]]
    /\ UNCHANGED <<timer, actor, marker, public, tables, ran, cmds, crashed, pureVars>>

SetTask(id, t) ==
    /\ Scheduled(id)
    /\ tasks' = [tasks EXCEPT ![id] = t]
    /\ UNCHANGED <<worldVars, pureVars>>

\* an actor's Mutex is free when no unfinished task holds its guard
MutexFree(id, entity) ==
    \A o \in TableIds \ {id} :
        Running(tasks[o]) =>
            \A j \in Side : ~(At(tasks[o].ent, j) = entity /\ At(tasks[o].locked, j))

\* join! polls a0.lock() first: a1's guard is taken before a0's only while
\* a0's Mutex is held elsewhere
DuelLock(id) ==
    \E i \in Side :
        /\ tasks[id].pc = "lock"
        /\ ~At(tasks[id].locked, i)
        /\ MutexFree(id, At(tasks[id].ent, i))
        /\ i = 1 => At(tasks[id].locked, 0) \/ ~MutexFree(id, At(tasks[id].ent, 0))
        /\ SetTask(id, lock_step(tasks[id], i))

DuelNotify(id) ==
    \E i \in Side :
        /\ tasks[id].pc = "notify"
        /\ ~At(tasks[id].done, i)
        /\ SetTask(id, notify_step(tasks[id], i))

DuelChat(id) ==
    /\ tasks[id].pc \in {"chat_trade", "chat_duel"}
    /\ LET t == tasks[id]
           i == t.turn
       IN  \E ans \in ChatAnswers(At(t.kind, i), At(t.ent, i), t.history) :
               SetTask(id, chat_step(t, ans))

DuelTrade(id) ==
    \E i \in Side :
        /\ tasks[id].pc = "trade"
        /\ At(tasks[id].got, i) = "run"
        /\ \E ans \in TradeAnswers(At(tasks[id].kind, i), At(tasks[id].inv, i)) :
               SetTask(id, trade_step(tasks[id], i, ans))

DuelAcceptTrade(id) ==
    \E i \in Side :
        /\ tasks[id].pc = "accept_trade"
        /\ ~At(tasks[id].done, i)
        /\ \E ans \in AcceptTradeAnswers(At(tasks[id].kind, i)) :
               SetTask(id, accept_trade_step(tasks[id], i, ans))

DuelFeedbackTrade(id) ==
    \E i \in Side :
        /\ tasks[id].pc = "feedback_trade"
        /\ ~At(tasks[id].done, i)
        /\ SetTask(id, feedback_trade_step(tasks[id], i))

DuelBet(id) ==
    \E i \in Side :
        /\ tasks[id].pc = "bet"
        /\ At(tasks[id].got, i) = "run"
        /\ \E ans \in BetAnswers(At(tasks[id].kind, i)) :
               SetTask(id, bet_step(tasks[id], i, ans))

DuelAcceptDuel(id) ==
    \E i \in Side :
        /\ tasks[id].pc = "duel"
        /\ ~At(tasks[id].done, i)
        /\ \E ans \in AcceptDuelAnswers(At(tasks[id].kind, i), At(tasks[id].inv, i)) :
               SetTask(id, accept_duel_step(tasks[id], i, ans))

DuelFeedbackDuel(id) ==
    \E i \in Side :
        /\ tasks[id].pc = "feedback_duel"
        /\ ~At(tasks[id].done, i)
        /\ SetTask(id, feedback_duel_step(tasks[id], i))

(***************************************************************************)
(* Properties.                                                             *)
(***************************************************************************)
Fields == <<"star", "coin", "rock", "paper", "scissors">>

Variants == <<"Star", "Coin", "Rock", "Paper", "Scissors">>

\* the task of SpecDuel
T1 == tasks[1]

PairSum(invs, f) == At(invs, 0)[f] + At(invs, 1)[f]

\* how many of the two cards drawn (when both actors drew) are of the kind
Drawn(cards, card) ==
    IF BothDrew(cards)
    THEN (IF At(cards, 0) = card THEN 1 ELSE 0) + (IF At(cards, 1) = card THEN 1 ELSE 0)
    ELSE 0

\* C1 as stated: a task that returns Ok([inv_a, inv_b]) leaves the sum of the two
\* inventories unchanged in every component: star, coin, rock, paper, scissors.
C1_conservation_all ==
    T1.pc = "ok" =>
        \A k \in 1..5 : PairSum(T1.inv, Fields[k]) = PairSum(T1.start, Fields[k])

\* C1 amended: a task that returns Ok leaves the two players' summed stars and
\* coins unchanged; the summed count of each card kind is unchanged unless both
\* actors drew a card, and then it is lower by the cards of that kind drawn.
C1_conservation ==
    T1.pc = "ok" =>
        /\ PairSum(T1.inv, "star") = PairSum(T1.start, "star")
        /\ PairSum(T1.inv, "coin") = PairSum(T1.start, "coin")
        /\ PairSum(T1.inv, "rock") + Drawn(T1.cards, "Rock") = PairSum(T1.start, "rock")
        /\ PairSum(T1.inv, "paper") + Drawn(T1.cards, "Paper") = PairSum(T1.start, "paper")
        /\ PairSum(T1.inv, "scissors") + Drawn(T1.cards, "Scissors")
              = PairSum(T1.start, "scissors")

\* a task returned Ok after a duel with a winner, with coins at stake
C1_witness ==
    /\ T1.pc = "ok"
    /\ BothDrew(T1.cards)
    /\ compare(At(T1.cards, 0), At(T1.cards, 1)) # -1
    /\ At(T1.inv, 0).coin # At(T1.start, 0).coin

\* the shared history as it was when the last chat call was made
ChatBefore(t) == SubSeq(t.history, 1, t.call.arg[4])

Hidden(r, entity) == r.kind = "Assistant" /\ r.ent # entity

\* C7: the history argument of every chat call on the actor of player X holds no
\* record Assistant(Y) with Y # X, and holds every other record appended to the
\* shared history so far, in order.
C7_chat_history_filtered ==
    T1.call.method = "chat" =>
        LET X      == At(T1.ent, T1.call.side)
            before == ChatBefore(T1)
            h      == T1.call.hist
        IN  /\ \A k \in 1..Len(h) : ~Hidden(h[k], X)
            /\ \A k \in 1..Len(h) : h[k].id \in 1..Len(before) /\ h[k] = before[h[k].id]
            /\ \A j, k \in 1..Len(h) : j < k => h[j].id < h[k].id
            /\ \A n \in 1..Len(before) :
                  ~Hidden(before[n], X) => \E k \in 1..Len(h) : h[k].id = n

\* a chat call whose argument kept a record and left one out
C7_witness ==
    /\ T1.call.method = "chat"
    /\ T1.call.hist # <<>>
    /\ Len(T1.call.hist) < Len(ChatBefore(T1))

\* C9 as stated: once the trade stage is over (the escrow taken, then the swap or
\* the rewind), a player who entered the task with star >= 1 holds at least one star.
C9_star_kept_in_trade ==
    T1.pc \in {"accept_trade", "feedback_trade"} =>
        \A i \in Side : At(T1.start, i).star >= 1 => At(T1.inv, i).star >= 1

\* C8: split_trade of normalize(t, inv) on an inventory with star >= 1 succeeds
\* and leaves star >= 1.
C8_normalize_then_split ==
    pout.op = "normalize_split" => pout.res.ok /\ pout.res.inv.star >= 1

\* a trade asking for more than every amount held was clamped and split
C8_witness ==
    /\ pout.op = "normalize_split"
    /\ \A k \in 1..5 : pin.trade[Fields[k]] > pin.inv[Fields[k]]
    /\ pin.inv.star > 1

\* the places (in the order star, coin, rock, paper, scissors, up to n) where
\* more is asked than held
Short(x, y, n) == {k \in 1..n : x[Fields[k]] < y[Fields[k]]}

First(S) == CHOOSE k \in S : \A j \in S : k <= j

\* the contract of a checked split over the first n fields
SplitContract(x, y, r, n) ==
    IF Short(x, y, n) = {}
    THEN /\ r.ok
         /\ \A k \in 1..n : r.inv[Fields[k]] + y[Fields[k]] = x[Fields[k]]
         /\ \A k \in (n + 1)..5 : r.inv[Fields[k]] = x[Fields[k]]
    ELSE LET k == First(Short(x, y, n))
         IN  /\ ~r.ok
             /\ r.err = Variants[k]
             /\ r.have = x[Fields[k]]
             /\ r.want = y[Fields[k]]

\* C10: split_trade (and split_stake over star and coin) returns Ok with the
\* component-wise difference exactly when nothing asked exceeds what is held, and
\* otherwise the error of the first insufficient resource with its (have, want).
C10_split_contract ==
    /\ pout.op = "split_trade" => SplitContract(pin.inv, pin.trade, pout.res, 5)
    /\ pout.op = "split_stake" => SplitContract(pin.inv, pin.trade, pout.res, 2)

\* a split refused for its coins although rock and scissors fall short too
C10_witness ==
    /\ pout.op = "split_trade"
    /\ Short(pin.inv, pin.trade, 5) = {2, 3, 5}
    /\ pout.res.err = "Coin"

(***************************************************************************)
(* The driver (game.rs 36-56, 346-497).  The Update systems carry no       *)
(* ordering constraint, so in each tick they run once each in any order;   *)
(* what a system queues on Commands is applied when the tick ends.         *)
(***************************************************************************)
Systems == {"update_public_state", "match_players", "update_players",
            "start_duel", "poll_duel"}

\* Inventory::default, game.rs 94-105 (source: 3 stars, 10 coins, 4 cards of each kind)
DefaultInv == MkInv(2, 0, 1, 1, 0)

RECURSIVE SumOver(_, _)
SumOver(S, f) ==
    IF S = {} THEN 0
    ELSE LET p == CHOOSE q \in S : TRUE IN f[p] + SumOver(S \ {p}, f)

\* the sequences that hold every element of S once
RECURSIVE Shuffles(_)
Shuffles(S) ==
    IF S = {} THEN {<<>>}
    ELSE UNION {{<<p>> \o rest : rest \in Shuffles(S \ {p})} : p \in S}

\* overlapping pairs (tuple_windows) in place of tuples
Tuples_windows(seq) == {<<seq[k], seq[k + 1]>> : k \in 1..(Len(seq) - 1)}

\* itertools' tuples(): consecutive pairs, a last odd element dropped
Tuples(seq) == {<<seq[2 * k - 1], seq[2 * k]>> : k \in 1..(Len(seq) \div 2)}

\* the entities on the tables that exist, game.rs 386-391
Seated == UNION {{tables[i].pair[1], tables[i].pair[2]} : i \in {j \in TableIds : tables[j] # NoTable}}

\* a matcher that does not look at the tables
match_unseated_any(p) == TRUE

\* game.rs 385-393: the player is on no table
match_unseated(p) == p \notin Seated

\* a matcher that takes every player off the tables
match_candidates_any == {p \in Players : match_unseated(p)}

\* a matcher that does not look at the timers
match_candidates_timeless ==
    {p \in Players :
        /\ match_unseated(p)
        /\ is_alive(inventory[p])
        /\ ~is_safe(inventory[p])}

\* game.rs 383-397: the filters of match_players
match_candidates ==
    {p \in Players :
        /\ match_unseated(p)
        /\ is_alive(inventory[p])
        /\ ~is_safe(inventory[p])
        /\ timer[p] # 0}

Ran(system) ==
    /\ ~crashed
    /\ Quiet
    /\ system \notin ran
    /\ ran' = ran \cup {system}

\* update_public_state, game.rs 360-368: the query is every Player
UpdatePublicState ==
    /\ Ran("update_public_state")
    /\ public' = [player   |-> Cardinality(Players),
                  rock     |-> SumOver(Players, [p \in Players |-> inventory[p].rock]),
                  paper    |-> SumOver(Players, [p \in Players |-> inventory[p].paper]),
                  scissors |-> SumOver(Players, [p \in Players |-> inventory[p].scissors])]
    /\ UNCHANGED <<inventory, timer, actor, marker, tables, tasks, cmds, crashed, pureVars>>

\* match_players, game.rs 371-410
MatchPlayers ==
    /\ Ran("match_players")
    /\ LET total_cards == SumOver(Players, [p \in Players |-> num_cards(inventory[p])])
           players     == match_candidates
       IN  IF total_cards < 2 \/ Cardinality(players) < MIN_MATCH_PLAYERS
           THEN cmds' = cmds
           ELSE \E shuffled \in Shuffles(players) :
                    cmds' = [cmds EXCEPT !.spawn = cmds.spawn \cup Tuples(shuffled)]
    /\ UNCHANGED <<inventory, timer, actor, marker, public, tables, tasks, crashed, pureVars>>

\* update_players, game.rs 413-430: the query leaves out the marked players
UpdatePlayers ==
    /\ Ran("update_players")
    /\ LET players == Players \ (marker.dead \cup marker.safe)
       IN  cmds' = [cmds EXCEPT
                      !.dead = cmds.dead \cup {p \in players : ~is_alive(inventory[p])},
                      !.safe = cmds.safe \cup {p \in players : is_safe(inventory[p])}]
    /\ UNCHANGED <<inventory, timer, actor, marker, public, tables, tasks, crashed, pureVars>>

\* a query without the Without<DuelTask> filter
Untasked_all == {i \in TableIds : tables[i] # NoTable}

\* the tables of start_duel's query: Without<DuelTask>
Untasked == {i \in TableIds : tables[i] # NoTable /\ ~tables[i].task}

\* game.rs 460-464: the four assertions
start_duel_asserts(i) ==
    \A k \in 1..2 : is_alive(inventory[tables[i].pair[k]]) /\ timer[tables[i].pair[k]] # 0

\* start_duel, game.rs 449-472
StartDuel ==
    /\ Ran("start_duel")
    /\ IF \A i \in Untasked : start_duel_asserts(i)
       THEN /\ tasks' = [i \in TableIds |->
                           IF i \in Untasked
                           THEN NewTask(tables[i].pair,
                                        <<inventory[tables[i].pair[1]],
                                          inventory[tables[i].pair[2]]>>,
                                        <<actor[tables[i].pair[1]],
                                          actor[tables[i].pair[2]]>>)
                           ELSE tasks[i]]
            /\ cmds' = [cmds EXCEPT !.insert = cmds.insert \cup Untasked]
            /\ crashed' = crashed
       ELSE /\ crashed' = TRUE
            /\ UNCHANGED <<tasks, cmds>>
    /\ UNCHANGED <<inventory, timer, actor, marker, public, tables, pureVars>>

\* a timer that stands still
decrease_none(t) == t

\* PlayerTimer::decrease, game.rs 118-123
decrease(t) == IF t = 0 THEN 0 ELSE t - 1

\* a poller that waits for every task it finds
Finished_or_not == {i \in TableIds : tables[i] # NoTable /\ tables[i].task}

\* the tables whose task poll_once finds finished, game.rs 479-480
Finished == {i \in TableIds : tables[i] # NoTable /\ tables[i].task /\ tasks[i].pc \in {"ok", "err", "panic"}}

\* a poller that writes back whatever the task ended with
poll_applies_any(t) == TRUE

\* game.rs 481-493: `Ok([m, n])` is written back, `Err(err)` is logged
poll_applies(t) == t.pc = "ok"

\* the table whose Ok result gives player p its inventory; the last one written
\* wins when several do (the query runs in entity order)
Writer(p) ==
    LET from == {i \in Finished : poll_applies(tasks[i]) /\ p \in {tables[i].pair[1], tables[i].pair[2]}}
    IN  IF from = {} THEN 0 ELSE CHOOSE i \in from : \A j \in from : j <= i

\* how often p's timer is decreased: once per slot of an Ok table
Writes(p) ==
    SumOver({i \in Finished : poll_applies(tasks[i])},
            [i \in TableIds |-> (IF tables[i].pair[1] = p THEN 1 ELSE 0)
                                  + (IF tables[i].pair[2] = p THEN 1 ELSE 0)])

RECURSIVE Decreased(_, _)
Decreased(t, n) == IF n = 0 THEN t ELSE Decreased(decrease(t), n - 1)

\* game.rs 482-491: `*x.0 = m; x.1.decrease()` and the same for y
poll_inventory(p) ==
    LET i == Writer(p)
    IN  IF i = 0 THEN inventory[p]
        ELSE IF tables[i].pair[2] = p THEN At(tasks[i].inv, 1) ELSE At(tasks[i].inv, 0)

\* a poll that leaves the timers alone
poll_timer_kept(p) == timer[p]

poll_timer(p) == Decreased(timer[p], Writes(p))

\* poll_duel, game.rs 474-497.  Polling a task that panicked panics in turn.
\* The table and its DuelTask stay until the despawn is applied.
PollDuel ==
    /\ Ran("poll_duel")
    /\ IF \E i \in Finished : tasks[i].pc = "panic"
       THEN /\ crashed' = TRUE
            /\ UNCHANGED <<inventory, timer, tasks, cmds>>
       ELSE /\ inventory' = [p \in Players |-> poll_inventory(p)]
            /\ timer' = [p \in Players |-> poll_timer(p)]
            /\ cmds' = [cmds EXCEPT !.despawn = cmds.despawn \cup Finished]
            /\ UNCHANGED <<tasks, crashed>>
    /\ UNCHANGED <<actor, marker, public, tables, pureVars>>

RECURSIVE Sorted(_)
Sorted(S) ==
    IF S = {} THEN <<>>
    ELSE LET m == CHOOSE p \in S : \A q \in S : p[1] <= q[1]
         IN  <<m>> \o Sorted(S \ {m})

RECURSIVE Ascending(_)
Ascending(S) ==
    IF S = {} THEN <<>>
    ELSE LET m == CHOOSE p \in S : \A q \in S : p <= q
         IN  <<m>> \o Ascending(S \ {m})

\* the end of the tick: the queued commands are applied (insert DuelTask,
\* despawn_recursive, spawn, insert PlayerDead / PlayerSafe), a spawned table
\* taking the first free entity
EndTick ==
    /\ ~crashed
    /\ Quiet
    /\ ran = Systems
    /\ LET kept  == [i \in TableIds |->
                       IF i \in cmds.despawn THEN NoTable
                       ELSE IF i \in cmds.insert THEN [tables[i] EXCEPT !.task = TRUE]
                       ELSE tables[i]]
           free  == Ascending({i \in TableIds : kept[i] = NoTable})
           fresh == Sorted(cmds.spawn)
           n     == Min(Len(free), Len(fresh))
       IN  tables' = [i \in TableIds |->
                        IF \E k \in 1..n : free[k] = i
                        THEN [task |-> FALSE,
                              pair |-> fresh[CHOOSE k \in 1..n : free[k] = i]]
                        ELSE kept[i]]
    /\ marker' = [dead |-> marker.dead \cup cmds.dead, safe |-> marker.safe \cup cmds.safe]
    /\ ran' = {}
    /\ cmds' = NoCmds
    /\ tasks' = [i \in TableIds |-> IF i \in cmds.despawn THEN NoTask ELSE tasks[i]]
    /\ UNCHANGED <<inventory, timer, actor, public, crashed, pureVars>>

\* is_game_over, game.rs 432-440
is_game_over ==
    Cardinality({p \in Players :
        is_alive(inventory[p]) /\ ~is_safe(inventory[p]) /\ timer[p] # 0}) = 0

(***************************************************************************)
(* SpecDuel: one duel task, spawned for players 1 and 2 on table 1, and     *)
(* the poll_duel that takes its result.                                    *)
(***************************************************************************)
\* the inventories a player on a fresh table may hold: alive and not safe
DuelInvs ==
    {MkInv(3, 0, 1, 0, 0), MkInv(3, 0, 0, 0, 1), MkInv(1, 1, 1, 0, 1),
     MkInv(2, 0, 0, 0, 0), MkInv(1, 0, 1, 0, 0)}

DuelKinds == {<<"Dummy", "Dummy">>,
              <<"Talker", "Talker">>, <<"Talker", "Dummy">>, <<"Dummy", "Talker">>,
              <<"Trader", "Trader">>, <<"Gambler", "Gambler">>,
              <<"Trader", "Gambler">>, <<"Gambler", "Trader">>,
              <<"Bettor", "Dummy">>}

DuelInit ==
    /\ \E i0 \in DuelInvs, i1 \in DuelInvs :
          inventory = [p \in Spawned |-> IF p = 1 THEN i0 ELSE IF p = 2 THEN i1 ELSE ZeroInv]
    /\ timer = [p \in Players |-> IF p \in {1, 2} THEN MAX_ROUNDS ELSE 0]
    /\ \E k \in DuelKinds :
          actor = [p \in Players |-> IF p = 1 THEN k[1] ELSE IF p = 2 THEN k[2] ELSE "Dummy"]
    /\ marker = NoMarker
    /\ public = NoPublic
    /\ tables = [i \in Slots(NUM_PLAYERS) |->
                   IF i = 1 THEN [task |-> TRUE, pair |-> <<1, 2>>] ELSE NoTable]
    /\ ran = {}
    /\ cmds = NoCmds
    /\ crashed = FALSE
    /\ tasks = [i \in TableIds |->
                  IF i = 1
                  THEN NewTask(<<1, 2>>, <<inventory[1], inventory[2]>>,
                               <<actor[1], actor[2]>>)
                  ELSE NoTask]
    /\ pin = NoValue
    /\ pout = NoValue

DuelNext ==
    \/ PollDuel
    \/ DuelLock(1)
    \/ DuelNotify(1)
    \/ DuelChat(1)
    \/ DuelTrade(1)
    \/ DuelAcceptTrade(1)
    \/ DuelFeedbackTrade(1)
    \/ DuelBet(1)
    \/ DuelAcceptDuel(1)
    \/ DuelFeedbackDuel(1)

SpecDuel == DuelInit /\ [][DuelNext]_vars

(***************************************************************************)
(* Spec: the driver with its duel tasks.                                   *)
(***************************************************************************)
\* the actors behind the players (Player::new takes any Actor): the trait's
\* defaults for all, or a Gambler behind player 1
DriverActors ==
    {[p \in Players |-> "Dummy"],
     [p \in Players |-> IF p = 1 THEN "Gambler" ELSE "Dummy"]}

Init ==
    /\ inventory = [p \in Spawned |-> DefaultInv]
    /\ timer = [p \in Players |-> MAX_ROUNDS]
    /\ actor \in DriverActors
    /\ Idle
    /\ tasks = [i \in TableIds |-> NoTask]
    /\ pin = NoValue
    /\ pout = NoValue

Next ==
    \/ UpdatePublicState
    \/ MatchPlayers
    \/ UpdatePlayers
    \/ StartDuel
    \/ PollDuel
    \/ EndTick
    \/ \E id \in TableIds : DuelLock(id)
    \/ \E id \in TableIds : DuelNotify(id)
    \/ \E id \in TableIds : DuelChat(id)
    \/ \E id \in TableIds : DuelTrade(id)
    \/ \E id \in TableIds : DuelAcceptTrade(id)
    \/ \E id \in TableIds : DuelFeedbackTrade(id)
    \/ \E id \in TableIds : DuelBet(id)
    \/ \E id \in TableIds : DuelAcceptDuel(id)
    \/ \E id \in TableIds : DuelFeedbackDuel(id)

Spec == Init /\ [][Next]_vars

(***************************************************************************)
(* SpecTables: the driver with one player more, so that two tables and two *)
(* duel tasks exist at a time; a Gambler is behind player 1, the trait's   *)
(* defaults behind the others; every player starts with one star and one   *)
(* card.                                                                   *)
(***************************************************************************)
TablesInv == MkInv(1, 0, 1, 0, 0)

TablesInit ==
    /\ inventory = [p \in 1..(NUM_PLAYERS + 1) |-> TablesInv]
    /\ timer = [p \in Players |-> MAX_ROUNDS]
    /\ actor = [p \in Players |-> IF p = 1 THEN "Gambler" ELSE "Dummy"]
    /\ marker = NoMarker
    /\ public = NoPublic
    /\ tables = [i \in Slots(NUM_PLAYERS + 1) |-> NoTable]
    /\ ran = {}
    /\ cmds = NoCmds
    /\ crashed = FALSE
    /\ tasks = [i \in TableIds |-> NoTask]
    /\ pin = NoValue
    /\ pout = NoValue

SpecTables == TablesInit /\ [][Next]_vars

(***************************************************************************)
(* Properties of the driver.                                               *)
(***************************************************************************)
Live == {i \in TableIds : tables[i] # NoTable}

\* the step in which poll_duel runs
PollStep == "poll_duel" \notin ran /\ "poll_duel" \in ran'

\* the tables poll_duel has processed in the current tick
Polled == IF "poll_duel" \in ran THEN cmds.despawn ELSE {}

\* match_players' conditions on a player, other than the tables
Qualified(p) ==
    /\ inventory[p].star > 0
    /\ ~(inventory[p].star >= 3 /\ num_cards(inventory[p]) = 0)
    /\ timer[p] > 0

\* C2: over all the tables that exist, every player fills at most one slot:
\* no player is on two tables and no table pairs a player with itself.
C2_one_slot_per_player ==
    \A i \in Live, j \in Live : \A k \in 1..2, l \in 1..2 :
        <<i, k>> # <<j, l>> => tables[i].pair[k] # tables[j].pair[l]

\* match_players has run while a table stood whose players would pass every
\* other filter, with a free player to pair them with
C2_witness ==
    /\ "match_players" \in ran
    /\ \E i \in Live : Qualified(tables[i].pair[1])
    /\ \E p \in Players : p \notin Seated /\ Qualified(p)
    /\ SumOver(Players, [p \in Players |-> num_cards(inventory[p])]) >= 2

\* C3: the players of a table match_players creates are, in the state it reads,
\* alive (star > 0), not safe (not star >= 3 with no card) and not timed-up.
C3_matched_players_qualify ==
    [][\A pr \in cmds'.spawn \ cmds.spawn : Qualified(pr[1]) /\ Qualified(pr[2])]_vars

\* a table is queued while some player is dead, safe or timed-up
C3_witness ==
    /\ cmds.spawn # {}
    /\ \E p \in Players : ~Qualified(p)

\* C4: after poll_duel has processed a task that ended with Err, both players'
\* inventories are the ones the task was spawned with.
C4_err_keeps_inventories ==
    \A i \in Polled :
        tasks[i].pc = "err" =>
            \A k \in 1..2 : inventory[tables[i].pair[k]] = tasks[i].start[k]

\* an Err task is processed whose snapshot an accepted trade had changed
C4_witness ==
    \E i \in Polled :
        /\ tasks[i].pc = "err"
        /\ tasks[i].swapped
        /\ tasks[i].inv # tasks[i].start

\* the tables with a finished Ok task that player p sits on
OkTables(p) ==
    {i \in Finished : tasks[i].pc = "ok" /\ p \in {tables[i].pair[1], tables[i].pair[2]}}

\* C5: a timer never increases; when poll_duel processes an Ok result of a
\* player's task the timer is positive and goes down by exactly one; no other
\* step changes a timer.
C5_timer_steps ==
    [][\A p \in Players :
          /\ timer'[p] <= timer[p]
          /\ (PollStep /\ OkTables(p) # {}) => (timer[p] > 0 /\ timer'[p] = timer[p] - 1)
          /\ ~(PollStep /\ OkTables(p) # {}) => timer'[p] = timer[p]]_vars

\* an Ok result has been processed that took a player's timer to zero
C5_witness ==
    \E i \in Polled :
        /\ tasks[i].pc = "ok"
        /\ timer[tables[i].pair[1]] = 0
        /\ MAX_ROUNDS > 1

\* C6: when poll_duel processes a task that ended with Err, both players'
\* timers go down by one and their inventories stay as they are.
C6_err_decrements_timers ==
    [][\A i \in Finished :
          (PollStep /\ tasks[i].pc = "err") =>
              \A k \in 1..2 :
                  /\ timer'[tables[i].pair[k]] = timer[tables[i].pair[k]] - 1
                  /\ inventory'[tables[i].pair[k]] = inventory[tables[i].pair[k]]]_vars

(***************************************************************************)
(* Properties of the pure operations, continued.                           *)
(***************************************************************************)
\* rock < paper < scissors < rock: the card next in the cycle wins
Beats(a, b) == <<b, a>> \in {<<"Rock", "Paper">>, <<"Paper", "Scissors">>, <<"Scissors", "Rock">>}

\* C11: compare(a, b) is None exactly when a = b; otherwise it is the index of the
\* winner under rock < paper < scissors < rock (0 for a, 1 for b); and
\* compare(a, b) = Some(i) if and only if compare(b, a) = Some(1 - i).
C11_compare_cycle ==
    pout.op = "compare" =>
        /\ pout.res = -1 <=> pin.lhs = pin.rhs
        /\ pin.lhs # pin.rhs => pout.res = (IF Beats(pin.lhs, pin.rhs) THEN 0 ELSE 1)
        /\ \A i \in {0, 1} : pout.res = i <=> pout.back = 1 - i

\* scissors were compared with rock, and rock won
C11_witness ==
    /\ pout.op = "compare"
    /\ pin.lhs = "Scissors"
    /\ pin.rhs = "Rock"
    /\ pout.res = 1

\* C12: for an inventory with star >= 1, normalizing a normalized trade again
\* against the same inventory changes nothing.
C12_normalize_idempotent ==
    pout.op = "normalize" => pout.twice = pout.once

\* a trade that asked for more than held everywhere was clamped, some star left to give
C12_witness ==
    /\ pout.op = "normalize"
    /\ \A k \in 1..5 : pin.trade[Fields[k]] > pin.inv[Fields[k]]
    /\ pout.once.star > 0
    /\ pout.once # pin.trade

(***************************************************************************)
(* Properties of the duel task, continued.                                 *)
(***************************************************************************)
Attempts == MAX_TRAIL_ROUNDS + 1

\* the stages whose join! runs one retry loop per actor
LoopStage(t) == t.pc \in {"trade", "bet"}

\* the error message of the stage a retry loop belongs to
StageMsg(method) ==
    CASE method = "trade" -> "trade failed too many times"
      [] method = "bet" -> "bet failed too many times"
      [] method = "accept_duel" -> "duel failed too many times"
      [] OTHER -> "?"

\* in every state: no loop has made more than Attempts calls, a loop gives up
\* only after Attempts calls, and an Err carries the message of the stage whose
\* loop gave up
C13_counts ==
    /\ \A i \in Side : At(T1.try, i) <= Attempts
    /\ T1.pc = "duel" => T1.round < Attempts
    /\ \A i \in Side : At(T1.got, i) = "none" => At(T1.try, i) = Attempts
    /\ T1.pc = "err" =>
          /\ T1.msg = StageMsg(T1.call.method)
          /\ IF T1.call.method = "accept_duel"
             THEN T1.round = Attempts /\ T1.call.fed # {}
             ELSE \E i \in Side : At(T1.got, i) = "none"

\* in every step: a step of a trade or bet stage is one call on an actor whose
\* loop still runs and leaves the other actor's loop as it is; the stage is left
\* for the next one only when both loops succeeded, and for Err otherwise; the
\* duel loop ends in Err when its last attempt fails
C13_steps ==
    /\ LoopStage(T1) /\ T1'.pc = T1.pc =>
          LET i == T1'.call.side
          IN  /\ At(T1.got, i) = "run"
              /\ At(T1'.try, i) = At(T1.try, i) + 1
              /\ At(T1'.try, Other(i)) = At(T1.try, Other(i))
              /\ At(T1'.got, Other(i)) = At(T1.got, Other(i))
    /\ LoopStage(T1) /\ T1'.pc \notin {T1.pc, "err", "panic"} =>
          /\ T1'.call.fed = {}
          /\ At(T1.got, Other(T1'.call.side)) = "some"
    /\ LoopStage(T1) /\ T1'.pc = "err" =>
          \/ T1'.call.fed # {}
          \/ At(T1.got, Other(T1'.call.side)) = "none"
    /\ T1.pc = "duel" /\ T1'.call.fed # {} /\ T1.round = MAX_TRAIL_ROUNDS =>
          T1'.pc \in {"err", "panic"}

\* C13: each retry loop calls its actor at most MAX_TRAIL_ROUNDS + 1 times; the
\* task returns Err with the stage's message exactly when a loop fails on all
\* its attempts; an actor's failed trade or bet never makes the other actor's
\* trade or bet be asked again.
C13_retry_loops == []C13_counts /\ [][C13_steps]_vars

\* the bet stage ended in Err: one actor failed every attempt, the other was
\* asked once
C13_witness ==
    /\ T1.pc = "err"
    /\ T1.msg = "bet failed too many times"
    /\ \E i \in Side :
          /\ At(T1.got, i) = "none"
          /\ At(T1.got, Other(i)) = "some"
          /\ At(T1.try, Other(i)) = 1

\* what player i holds once it gave `out` and received `back`
Exchanged(inv, out, back) ==
    [f \in {"star", "coin", "rock", "paper", "scissors"} |-> inv[f] - out[f] + back[f]]

\* after the accept-trade stage: both accepted and each holds what it had before
\* the trade stage less its own trade plus the other's, or not both accepted and
\* each holds what it had before the trade stage
C14_swap_or_rewind ==
    T1.pc = "feedback_trade" =>
        IF At(T1.acc, 0) /\ At(T1.acc, 1)
        THEN \A i \in Side :
                At(T1.inv, i) = Exchanged(At(T1.start, i), At(T1.tr, i), At(T1.tr, Other(i)))
        ELSE T1.inv = T1.start

\* a feedback_trade call on actor i carries [i's answer, the other's answer]
C14_feedback ==
    T1.pc = "feedback_trade" /\ T1' # T1 =>
        /\ T1'.call.method = "feedback_trade"
        /\ T1'.call.arg = <<At(T1.acc, T1'.call.side), At(T1.acc, Other(T1'.call.side))>>

\* C14: in the accept-trade stage each player receives the other's trade if and
\* only if both actors return true; otherwise each gets back the trade it put
\* up, so both snapshots equal their values before the trade stage; and each
\* actor's feedback_trade receives [own answer, other's answer].
C14_accept_trade == []C14_swap_or_rewind /\ [][C14_feedback]_vars

\* feedback_trade was called after a swap that left a player with more stars
\* than it entered with
C14_witness ==
    /\ T1.call.method = "feedback_trade"
    /\ T1.swapped
    /\ \E i \in Side : At(T1.inv, i).star > At(T1.start, i).star

\* a step of the duel stage: an accept_duel call returns
DuelStep == T1.pc = "duel" /\ T1' # T1

\* the call of the step is the second of its join! to return
Joined == At(T1.done, Other(T1'.call.side))

\* in every step of the duel stage: the task goes from there straight to Ok only
\* with a card withheld, its inventories then being those the bet stage found;
\* and a join! that ends with a card withheld (no actor was fed an error) ends
\* the task with Ok
C15_task ==
    DuelStep =>
        /\ T1'.pc = "ok" => ~BothDrew(T1'.cards) /\ T1'.inv = T1.before
        /\ Joined /\ T1'.call.fed = {} /\ ~BothDrew(T1'.cards) => T1'.pc = "ok"

\* poll_duel writes such a result back and decreases both timers by one
C15_poll ==
    (PollStep /\ tables[1].task /\ T1.pc = "ok" /\ T1.call.method = "accept_duel") =>
        \A i \in Side :
            /\ inventory'[At(T1.ent, i)] = At(T1.inv, i)
            /\ timer'[At(T1.ent, i)] = timer[At(T1.ent, i)] - 1

\* C15: if either actor's accept_duel returns None, no card is removed, both
\* stakes go back to their owners, the task returns Ok with the inventories as
\* they were before the bet stage, and the poller decrements the timers as for
\* any Ok result.
C15_none_returns_stakes == [][C15_task /\ C15_poll]_vars

\* polled: a task that ended Ok with one card drawn and one withheld, stars at
\* stake, after a swap
C15_witness ==
    /\ "poll_duel" \in ran
    /\ T1.pc = "ok"
    /\ T1.call.method = "accept_duel"
    /\ \E i \in Side : At(T1.cards, i) # "None" /\ At(T1.cards, Other(i)) = "None"
    /\ T1.call.arg[1].star > 0
    /\ T1.swapped
    /\ \A i \in Side : inventory[At(T1.ent, i)] = At(T1.inv, i)
    /\ timer[1] = MAX_ROUNDS - 1

\* how many cards of each kind an inventory holds
CardsOf(inv) == [c \in Card |-> IF c = "Rock" THEN inv.rock
                                ELSE IF c = "Paper" THEN inv.paper ELSE inv.scissors]

\* `out` is `inv` less its stake, less the one card `c`, plus `gain`
Settled(inv, out, c, own, gain) ==
    /\ CardsOf(out) = [CardsOf(inv) EXCEPT ![c] = @ - 1]
    /\ CardsOf(inv)[c] > 0
    /\ out.star = inv.star - own.star + gain.star
    /\ out.coin = inv.coin - own.coin + gain.coin

\* what the duel owes side i: Tie with the own stake, Win with both, Lose with none
Outcome(cards, stk, i) ==
    LET mine == At(cards, i)
        theirs == At(cards, Other(i))
    IN  IF mine = theirs THEN [res |-> "Tie", gain |-> At(stk, i)]
        ELSE IF Beats(mine, theirs)
             THEN [res |-> "Win", gain |-> stake_add(At(stk, 0), At(stk, 1))]
             ELSE [res |-> "Lose", gain |-> MkStake(0, 0)]

\* the step that settles a duel with two cards drawn
C16_settle ==
    (T1.pc = "duel" /\ T1'.pc = "feedback_duel") =>
        /\ BothDrew(T1'.cards)
        /\ \A i \in Side :
              Settled(At(T1.before, i), At(T1'.inv, i), At(T1'.cards, i),
                      At(T1.stk, i), Outcome(T1'.cards, T1.stk, i).gain)

\* the feedback_duel calls: each actor its own result, the inventories as
\* settled, and Ok only after both
C16_feedback ==
    (T1.pc = "feedback_duel" /\ T1' # T1) =>
        /\ T1'.call.method = "feedback_duel"
        /\ T1'.call.arg = <<Outcome(T1.cards, T1.stk, T1'.call.side).res>>
        /\ ~At(T1.done, T1'.call.side)
        /\ T1'.inv = T1.inv
        /\ T1'.pc = (IF At(T1.done, Other(T1'.call.side)) THEN "ok" ELSE "feedback_duel")

ExampleInv == MkInv(3, 0, 1, 0, 0)

ExampleStakes == <<MkStake(1, 0), MkStake(1, 0)>>

\* the two worked examples, in the state the settlement leaves
C16_examples ==
    (T1.pc = "feedback_duel" /\ T1.stk = ExampleStakes /\ At(T1.before, 0) = ExampleInv) =>
        /\ (At(T1.before, 1) = ExampleInv /\ T1.cards = <<"Rock", "Rock">>)
              => T1.inv = <<MkInv(3, 0, 0, 0, 0), MkInv(3, 0, 0, 0, 0)>>
        /\ (At(T1.before, 1) = MkInv(3, 0, 0, 0, 1) /\ T1.cards = <<"Rock", "Scissors">>)
              => At(T1.inv, 0).star = 4 /\ At(T1.inv, 1).star = 2

\* C16: when both actors draw a valid card each loses exactly that card; on a
\* tie each gets the own stake back and both are told Tie; otherwise the player
\* whose card wins gets both stakes and is told Win, the other gets nothing and
\* is told Lose. {3,0,1,0,0} twice, stakes {1,0}, Rock and Rock: {3,0,0,0,0}
\* each; Rock against Scissors with stakes {1,0}: 4 stars and 2 stars.
C16_settlement == []C16_examples /\ [][C16_settle /\ C16_feedback]_vars

\* both examples' settlements happen, and a win has been fed back to both
C16_witness_tie ==
    /\ T1.pc = "feedback_duel" /\ T1.stk = ExampleStakes
    /\ T1.before = <<ExampleInv, ExampleInv>> /\ T1.cards = <<"Rock", "Rock">>

C16_witness ==
    /\ T1.pc = "ok" /\ T1.call.method = "feedback_duel"
    /\ T1.cards = <<"Rock", "Scissors">>
    /\ T1.start = <<ExampleInv, MkInv(3, 0, 0, 0, 1)>>
    /\ At(T1.inv, 0).star = 4 /\ At(T1.inv, 1).star = 2
    /\ "poll_duel" \in ran
    /\ inventory[1].star = 4 /\ inventory[2].star = 2

\* the stages of a duel task in the order of the code, by the method called
Stages == <<"lock", "notify", "chat_trade", "trade", "accept_trade", "feedback_trade",
            "chat_duel", "bet", "duel", "feedback_duel">>

StageNo(pc) == CHOOSE n \in 1..Len(Stages) : Stages[n] = pc

MethodOf(pc) ==
    IF pc \in {"chat_trade", "chat_duel"} THEN "chat"
    ELSE IF pc = "duel" THEN "accept_duel" ELSE pc

\* a step of the running task
TaskStep == Running(T1) /\ T1' # T1 /\ T1'.pc # "none"

\* the other half of the stage's join! returned before the step
OtherHalfDone(t, i) ==
    IF t.pc \in {"trade", "bet"} THEN At(t.got, Other(i)) # "run"
    ELSE IF t.pc = "lock" THEN At(t.locked, Other(i))
    ELSE At(t.done, Other(i))

\* every call belongs to the stage at hand; a step stays in its stage, ends the
\* task, or enters the next stage, and the next stage is entered only by the
\* step that completes the stage: the last chat call, or the second half of the join!
C17_stages ==
    TaskStep =>
        /\ IF T1.pc = "lock" THEN T1'.call = NoCall
           ELSE T1'.call.method = MethodOf(T1.pc)
        /\ \/ T1'.pc \in {T1.pc, "ok", "err", "panic"}
           \/ /\ StageNo(T1.pc) < Len(Stages)
              /\ T1'.pc = Stages[StageNo(T1.pc) + 1]
              /\ IF MethodOf(T1.pc) = "chat"
                 THEN T1'.call.arg[2] = 2 * NUM_CHAT_ROUNDS - 1
                 ELSE /\ T1.pc # "lock" => OtherHalfDone(T1, T1'.call.side)
                      /\ T1.pc = "lock" => \E i \in Side : At(T1.locked, i)
        /\ T1'.pc = "ok" => T1.pc \in {"feedback_trade", "duel", "feedback_duel"}

\* a record the history-visibility rule shows to entity e
Visible(x, e) == x.kind = "Assistant" => x.ent = e

VisibleTo(e) == LET keep(x) == Visible(x, e) IN SelectSeq(T1.history, keep)

\* the chat calls of a stage: kinds 0, 1, 2, ... by actor 0, 1, 0, ..., each
\* given the history so far, filtered for the callee; the stage ends with kind
\* 2 * NUM_CHAT_ROUNDS - 1
C17_chat ==
    (TaskStep /\ MethodOf(T1.pc) = "chat") =>
        LET c == T1'.call
            first == T1.call.method # "chat" \/ T1.call.arg[1] # c.arg[1]
        IN  /\ c.arg[1] = (IF T1.pc = "chat_trade" THEN "Trade" ELSE "Duel")
            /\ c.arg[2] = (IF first THEN 0 ELSE T1.call.arg[2] + 1)
            /\ c.side = c.arg[2] % 2
            /\ c.arg[2] \in 0..(2 * NUM_CHAT_ROUNDS - 1)
            /\ T1'.pc = T1.pc <=> c.arg[2] < 2 * NUM_CHAT_ROUNDS - 1
            /\ c.hist = VisibleTo(At(T1.ent, c.side))

\* the history only grows, and only by what a chat call returned
C17_history ==
    TaskStep =>
        /\ Len(T1'.history) >= Len(T1.history)
        /\ SubSeq(T1'.history, 1, Len(T1.history)) = T1.history
        /\ T1'.history # T1.history => T1'.call.method = "chat"

\* C17: the stages of a duel task are strictly sequential (notify, trade chat,
\* trade loops, accept_trade, feedback_trade, duel chat, bet loops, accept_duel,
\* settlement); in a chat stage the calls alternate first actor (kind 2r) and
\* second actor (kind 2r + 1) for r = 0..NUM_CHAT_ROUNDS-1; and the records a
\* chat call returned are in the filtered history of the very next chat call.
C17_stage_order == [][C17_stages /\ C17_chat /\ C17_history]_vars

\* the second duel-chat call is being answered: the first one returned a record
\* every actor may see, and the call before it was the second trade-chat call
C17_witness ==
    /\ T1.pc = "chat_duel" /\ T1.turn = 1
    /\ T1.call.method = "chat" /\ T1.call.arg[1] = "Duel" /\ T1.call.arg[2] = 0
    /\ Len(T1.history) > T1.call.arg[4]
    /\ T1.history[Len(T1.history)].kind = "Actor"
    /\ \E k \in 1..T1.call.arg[4] : T1.history[k].kind = "Assistant"

(***************************************************************************)
(* Properties of the tasks side by side (SpecTables).                      *)
(***************************************************************************)
\* the tasks spawned and not yet finished
Unfinished == {i \in TableIds : Running(tasks[i])}

Pair(i) == {At(tasks[i].ent, 0), At(tasks[i].ent, 1)}

\* the locks task i holds
Held(i) == {At(tasks[i].ent, k) : k \in {j \in Side : At(tasks[i].locked, j)}}

\* the guards are taken first actor first, both are held from the first call
\* on, the two actors of a task differ, and no actor belongs to two unfinished
\* tasks, so that every lock a task still waits for is free
C18_held ==
    \A i \in Unfinished :
        /\ tasks[i].locked \in {<<FALSE, FALSE>>, <<TRUE, FALSE>>, <<TRUE, TRUE>>}
        /\ tasks[i].pc = "lock" <=> tasks[i].locked # <<TRUE, TRUE>>
        /\ tasks[i].call # NoCall => tasks[i].locked = <<TRUE, TRUE>>
        /\ At(tasks[i].ent, 0) # At(tasks[i].ent, 1)
        /\ \A j \in Unfinished \ {i} :
              Pair(i) \cap Pair(j) = {} /\ Held(i) \cap Held(j) = {}
        /\ \A k \in Side : ~At(tasks[i].locked, k) => MutexFree(i, At(tasks[i].ent, k))

\* every step of a task past its locks is taken with both guards, and no
\* guard is given up while the task runs
C18_calls ==
    \A i \in TableIds :
        (Running(tasks[i]) /\ tasks'[i] # tasks[i] /\ tasks'[i].pc # "none") =>
            /\ tasks[i].pc # "lock" => tasks[i].locked = <<TRUE, TRUE>>
            /\ tasks'[i].call # NoCall => tasks'[i].locked = <<TRUE, TRUE>>
            /\ \A k \in Side : At(tasks[i].locked, k) => At(tasks'[i].locked, k)

\* C18: a duel task takes both of its actors' locks, in a fixed order of the
\* pair, before its first actor call and holds both until it ends; every actor
\* call is made with both held; and no two unfinished tasks hold or wait for
\* the same lock, so that taking a lock never blocks.
C18_locks == []C18_held /\ [][C18_calls]_vars

\* two tasks at a time: one has made calls under both guards, the other has
\* been spawned and waits to run
C18_witness ==
    \E i \in Unfinished, j \in Unfinished :
        /\ i # j
        /\ tasks[i].locked = <<TRUE, TRUE>> /\ tasks[i].call.method = "trade"
        /\ tasks[j].pc = "lock"

\* the tables of poll_duel's query: those with a DuelTask
Tasked == {i \in TableIds : tables[i] # NoTable /\ tables[i].task}

\* poll_duel with a running task on table i: nothing of it changes
C19_running ==
    \A i \in Tasked :
        (PollStep /\ Running(tasks[i])) =>
            /\ tables'[i] = tables[i]
            /\ tasks'[i] = tasks[i]
            /\ i \notin cmds'.despawn
            /\ \A k \in 1..2 :
                  /\ inventory'[tables[i].pair[k]] = inventory[tables[i].pair[k]]
                  /\ timer'[tables[i].pair[k]] = timer[tables[i].pair[k]]

\* poll_duel with a task that returned on table i: the table has not been
\* processed before and is despawned now, Ok or Err
C19_finished ==
    \A i \in Tasked :
        (PollStep /\ ~crashed' /\ tasks[i].pc \in {"ok", "err"}) =>
            i \notin cmds.despawn /\ i \in cmds'.despawn

\* the tick ends with the table and its task gone: the entity is free, or
\* taken by a table spawned in this tick
C19_destroyed ==
    (ran = Systems /\ ran' = {}) =>
        \A i \in cmds.despawn :
            /\ tasks'[i] = NoTask
            /\ tables'[i] = NoTable \/ (~tables'[i].task /\ tables'[i].pair \in cmds.spawn)

\* C19: poll_duel does not wait: a table whose task is still running is left
\* untouched (table, task, its players' inventories and timers); a table whose
\* task has completed is destroyed in that tick whether the result is Ok or
\* Err, and its result is applied at most once.
C19_poll_once == [][C19_running /\ C19_finished /\ C19_destroyed]_vars

\* poll_duel has run with one task still running and another one returned Err
C19_witness ==
    /\ "poll_duel" \in ran
    /\ \E i \in Polled, j \in Tasked :
          /\ tasks[i].pc = "err"
          /\ Running(tasks[j])
          /\ j \notin cmds.despawn

\* the unfinished tasks player p is a party of
TasksOf(p) == {i \in Unfinished : p \in Pair(i)}

\* in every step: the inventory and the timer of a player with an unfinished
\* task stay as they are, and whatever changes an inventory or a timer is
\* poll_duel processing the Ok result of that player's finished task
C20_frame ==
    \A p \in Players :
        /\ TasksOf(p) # {} => inventory'[p] = inventory[p] /\ timer'[p] = timer[p]
        /\ (inventory'[p] # inventory[p] \/ timer'[p] # timer[p]) =>
              /\ PollStep
              /\ OkTables(p) # {}
              /\ tasks' = tasks

\* C20: while a duel task is running the authoritative inventories and timers
\* of its two players do not change; the task works on its snapshots, and the
\* only writes to an inventory or a timer are poll_duel's, after the player's
\* task has completed.
C20_snapshot == [][C20_frame]_vars

\* a task in mid-run whose snapshot has left the players' inventories behind,
\* after poll_duel has written another player's result
C20_witness ==
    \E i \in Unfinished :
        /\ tasks[i].locked = <<TRUE, TRUE>>
        /\ \A k \in Side : inventory[At(tasks[i].ent, k)] = At(tasks[i].start, k)
        /\ \E k \in Side : At(tasks[i].inv, k) # At(tasks[i].start, k)
        /\ \E q \in Players \ Pair(i) : timer[q] < MAX_ROUNDS

(***************************************************************************)
(* SpecLast: the driver late in a game.  Every player is either as         *)
(* SpecTables starts it or dead (no star left); the systems run tick after *)
(* tick and the task pool runs its tasks, which is the fairness stated.    *)
(***************************************************************************)
DeadInv == MkInv(0, 0, 1, 0, 0)

LastInit ==
    /\ inventory \in [Spawned -> {TablesInv, DeadInv}]
    /\ timer = [p \in Players |-> MAX_ROUNDS]
    /\ actor = [p \in Players |-> "Dummy"]
    /\ Idle
    /\ tasks = [i \in TableIds |-> NoTask]
    /\ pin = NoValue
    /\ pout = NoValue

SpecLast == LastInit /\ [][Next]_vars /\ WF_vars(Next)

\* exactly one player is alive, not safe and not timed-up, every other player
\* is dead, and there is no table
Lone ==
    /\ Cardinality({p \in Players : Qualified(p)}) = 1
    /\ \A p \in Players : Qualified(p) \/ ~is_alive(inventory[p])
    /\ Live = {}

\* from a Lone state on, no table is spawned
C21_no_table == [](Lone => [](Live = {} /\ cmds.spawn = {}))

\* C21: from a state with exactly one player alive, not safe and not timed-up,
\* all others dead and no table, the matchmaker never emits a table, and the
\* game-over predicate eventually becomes true.
C21_lone_game_over == C21_no_table /\ (Lone ~> is_game_over)

\* ticks go by with the lone player's timer where it was
C21_lone_ticks ==
    /\ Lone
    /\ ran = Systems
    /\ ~is_game_over

(***************************************************************************)
(* Properties of the systems, continued.                                   *)
(***************************************************************************)
\* the step in which match_players runs
MatchStep == "match_players" \notin ran /\ "match_players" \in ran'

\* the players match_players may table: on no table, alive, not safe, not timed-up
Eligible == {p \in Players : p \notin Seated /\ Qualified(p)}

CardTotal == SumOver(Players, [p \in Players |-> num_cards(inventory[p])])

\* the tables the step queues
Emitted == cmds'.spawn \ cmds.spawn

C22_step ==
    MatchStep =>
        /\ inventory' = inventory /\ timer' = timer
        /\ cmds.spawn = {}
        /\ IF CardTotal < 2 \/ Cardinality(Eligible) < MIN_MATCH_PLAYERS
           THEN Emitted = {}
           ELSE /\ Cardinality(Emitted) = Cardinality(Eligible) \div 2
                /\ \A pr \in Emitted : pr[1] # pr[2] /\ {pr[1], pr[2]} \subseteq Eligible
                /\ \A pr \in Emitted, qr \in Emitted :
                      pr # qr => {pr[1], pr[2]} \cap {qr[1], qr[2]} = {}
                /\ Cardinality(Eligible \ UNION {{pr[1], pr[2]} : pr \in Emitted}) <= 1

\* tuples() of n candidates gives floor(n / 2) pairs, 4 for 8
C22_pairs == \A n \in 0..8 : Cardinality(Tuples([k \in 1..n |-> k])) = n \div 2

\* C22: in one tick match_players creates no table when the card total over
\* all players is below 2 or fewer than MIN_MATCH_PLAYERS players are eligible;
\* otherwise it creates floor(c / 2) tables for c eligible players, each of two
\* distinct eligible players, no player twice, at most one eligible player left
\* over (8 give 4 tables); it changes no inventory and no timer.
C22_match_players == []C22_pairs /\ [][C22_step]_vars

\* match_players has tabled four players at once
C22_witness ==
    /\ "match_players" \in ran
    /\ Cardinality(cmds.spawn) = 2
    /\ Live = {}

\* it has tabled two of three and left one over
C22_witness_odd ==
    /\ "match_players" \in ran
    /\ Cardinality(cmds.spawn) = 1
    /\ Cardinality({p \in Players : p \notin Seated /\ Qualified(p)}) = 3

\* it has run with players to pair and less than two cards in the game
C22_witness_cards ==
    /\ "match_players" \in ran
    /\ cmds.spawn = {}
    /\ Cardinality({p \in Players : p \notin Seated /\ Qualified(p)}) >= 2
    /\ SumOver(Players, [p \in Players |-> num_cards(inventory[p])]) < 2

\* the step in which update_public_state runs
PublicStep == "update_public_state" \notin ran /\ "update_public_state" \in ran'

\* the players that are not dead: alive, safe or not
LiveOrSafe == {p \in Players : is_alive(inventory[p])}

\* the players not marked PlayerDead
Unmarked == Players \ marker.dead

CountOver(S) ==
    [player   |-> Cardinality(S),
     rock     |-> SumOver(S, [p \in Players |-> inventory[p].rock]),
     paper    |-> SumOver(S, [p \in Players |-> inventory[p].paper]),
     scissors |-> SumOver(S, [p \in Players |-> inventory[p].scissors])]

\* C23: after update_public_state runs, PublicState.player is the number of
\* live-or-safe players and rock, paper and scissors are the sums of those card
\* counts over the live-or-safe players only.
C23_public_counts_live == [][PublicStep => public' = CountOver(LiveOrSafe)]_vars

\* the same with the dead taken as the players marked PlayerDead
C23_public_counts_unmarked == [][PublicStep => public' = CountOver(Unmarked)]_vars

\* what the system does: it counts every player
C23_public_counts_all == [][PublicStep => public' = CountOver(Players)]_vars

\* update_public_state has run with a player marked dead that holds a card
C23_dead_counted ==
    /\ "update_public_state" \in ran
    /\ \E p \in marker.dead : num_cards(inventory[p]) > 0
    /\ public # CountOver(LiveOrSafe)
    /\ public = CountOver(Players)

(***************************************************************************)
(* Properties of the duel task, continued.                                 *)
(***************************************************************************)
\* a step in which a split was rejected and feedback_error called
Rejected == Running(T1) /\ T1' # T1 /\ T1'.pc # "none" /\ T1'.call.fed # {}

\* the task goes on in the stage's loop, or gives the stage up with Err
C24_rejected == Rejected => T1'.pc \in {T1.pc, "err"}

\* C24: no panic crosses the task boundary: a rejected trade, stake or card is
\* reported through feedback_error and the task stays in the stage's retry
\* loop; the task always finishes with Ok or with a stage-abort Err, also with
\* an actor that uses the trait's default feedback_error.
C24_no_panic == [](T1.pc # "panic") /\ [][C24_rejected]_vars

\* the same for the actors that override feedback_error
C24_overridden ==
    [][(Rejected /\ \A i \in T1'.call.fed : ~FeedbackErrorPanics(At(T1.kind, i)))
          => T1'.pc \in {T1.pc, "err"}]_vars

\* the first rejected stake of an actor with the default feedback_error ended
\* the task in a panic, and poll_duel went down with it
C24_panicked ==
    /\ T1.pc = "panic"
    /\ T1.call.method = "bet" /\ T1.call.fed = {0}
    /\ At(T1.kind, 0) = "Bettor"
    /\ At(T1.try, 0) = 0
    /\ crashed

\* an inventory without a card
Cardless(inv) == inv.rock + inv.paper + inv.scissors = 0

\* the step that ends the accept-trade stage: the second feedback_trade returns
TradeDone ==
    /\ T1.pc = "feedback_trade" /\ T1' # T1 /\ T1'.pc # "none"
    /\ At(T1.done, Other(T1'.call.side))

\* with a cardless snapshot the task ends there with Ok and the inventories as
\* the trade left them; otherwise it goes on
C25_task ==
    TradeDone =>
        /\ T1'.inv = T1.inv
        /\ T1'.call.method = "feedback_trade"
        /\ IF Cardless(At(T1.inv, 0)) \/ Cardless(At(T1.inv, 1))
           THEN T1'.pc = "ok"
           ELSE T1'.pc = (IF NUM_CHAT_ROUNDS = 0 THEN "bet" ELSE "chat_duel")

\* a task that ended so has no stake out: its snapshots hold the stars and the
\* coins the players came with
C25_ended ==
    (T1.pc = "ok" /\ T1.call.method = "feedback_trade") =>
        /\ Cardless(At(T1.inv, 0)) \/ Cardless(At(T1.inv, 1))
        /\ T1.stk = <<MkStake(0, 0), MkStake(0, 0)>>
        /\ ~T1.swapped => T1.inv = T1.start
        /\ \A f \in {"star", "coin"} :
              At(T1.inv, 0)[f] + At(T1.inv, 1)[f] = At(T1.start, 0)[f] + At(T1.start, 1)[f]

\* poll_duel writes the result back and decreases both timers
C25_poll ==
    (PollStep /\ tables[1].task /\ T1.pc = "ok" /\ T1.call.method = "feedback_trade") =>
        \A i \in Side :
            /\ inventory'[At(T1.ent, i)] = At(T1.inv, i)
            /\ timer'[At(T1.ent, i)] = timer[At(T1.ent, i)] - 1

\* C25: if after the accept-trade stage either snapshot inventory holds no
\* card, the task returns Ok with the post-trade inventories at once: no
\* duel-chat, bet, accept_duel or feedback_duel call, no star or coin moves,
\* and the poller still decrements both timers.
C25_cannot_duel == []C25_ended /\ [][C25_task /\ C25_poll]_vars

\* polled: a task that ended after a swap that took a player's last card
C25_witness ==
    /\ "poll_duel" \in ran
    /\ T1.pc = "ok" /\ T1.call.method = "feedback_trade"
    /\ T1.swapped
    /\ \A i \in Side : ~Cardless(At(T1.start, i))
    /\ \E i \in Side : Cardless(At(T1.inv, i))
    /\ \A i \in Side : inventory[At(T1.ent, i)] = At(T1.inv, i)
    /\ timer[1] = MAX_ROUNDS - 1 /\ timer[2] = MAX_ROUNDS - 1

(***************************************************************************)
(* Properties of the systems, continued.                                   *)
(***************************************************************************)
\* the step in which start_duel runs
StartStep == "start_duel" \notin ran /\ "start_duel" \in ran'

\* the tables that stand without a DuelTask
Bare == {i \in Live : ~tables[i].task}

\* start_duel finds the players of every bare table alive and not timed-up,
\* spawns one task for each from the inventories and actors as they are, queues
\* the DuelTask, and leaves the tasks of the other tables alone
C26_step ==
    StartStep =>
        /\ ~crashed'
        /\ \A i \in Bare :
              /\ \A k \in 1..2 :
                    /\ tables[i].pair[k] \in Players
                    /\ inventory[tables[i].pair[k]].star > 0
                    /\ timer[tables[i].pair[k]] > 0
              /\ tasks[i] = NoTask
              /\ Running(tasks'[i])
              /\ tasks'[i].ent = tables[i].pair
              /\ tasks'[i].start = <<inventory[tables[i].pair[1]], inventory[tables[i].pair[2]]>>
              /\ i \in cmds'.insert
        /\ \A i \in TableIds \ Bare : tasks'[i] = tasks[i] /\ i \notin cmds'.insert

\* a table is bare from the end of the tick that spawned it to the end of the
\* next tick, and has its task from start_duel's run in that tick on
C26_one_task ==
    \A i \in TableIds :
        /\ i \in Bare => (tasks[i] = NoTask <=> "start_duel" \notin ran)
        /\ (i \in Live /\ tables[i].task) => tasks[i] # NoTask
        /\ i \notin Live => tasks[i] = NoTask

\* the tick after a table was spawned ends with its DuelTask attached
C26_attached ==
    (ran = Systems /\ ran' = {}) =>
        \A i \in Bare : tables'[i] # NoTable /\ tables'[i].task /\ tables'[i].pair = tables[i].pair

\* C26: every table gets exactly one duel task, in the first tick after the one
\* that created it, and then both of its players exist, are alive and are not
\* timed-up: start_duel's four assertions hold in every reachable state, for
\* any order of the systems in a tick.
C26_start_duel == []C26_one_task /\ [][C26_step /\ C26_attached]_vars

\* start_duel has spawned a task in a tick in which poll_duel has processed
\* another table
C26_witness ==
    /\ {"start_duel", "poll_duel"} \subseteq ran
    /\ cmds.insert # {}
    /\ cmds.despawn # {}
    /\ \A i \in cmds.insert : Running(tasks[i])

\* the step in which update_players runs
MarkStep == "update_players" \notin ran /\ "update_players" \in ran'

Marked == marker.dead \cup marker.safe

\* update_players queues PlayerDead for the unmarked players without a star
\* and PlayerSafe for the unmarked players with three stars or more and no card
C27_step ==
    MarkStep =>
        /\ cmds.dead = {} /\ cmds.safe = {}
        /\ cmds'.dead = {p \in Players \ Marked : inventory[p].star = 0}
        /\ cmds'.safe = {p \in Players \ Marked :
                            /\ inventory[p].star >= 3
                            /\ inventory[p].rock + inventory[p].paper + inventory[p].scissors = 0}
        /\ marker' = marker

\* markers change only when the tick's commands are applied, by what
\* update_players queued, and none is taken away
C27_markers ==
    /\ marker.dead \subseteq marker'.dead /\ marker.safe \subseteq marker'.safe
    /\ marker' # marker => (ran = Systems /\ ran' = {})
    /\ (ran = Systems /\ ran' = {}) =>
          /\ marker'.dead = marker.dead \cup cmds.dead
          /\ marker'.safe = marker.safe \cup cmds.safe

\* C27: each tick update_players gives every not yet marked player the dead
\* marker exactly when its inventory has star = 0 and the safe marker exactly
\* when it has star >= 3 and no card; marked players are not scanned, and a
\* marker once set is never removed.
C27_update_players == [][C27_step /\ C27_markers]_vars

\* update_players has run with a dead and a safe player marked before, and a
\* player with three stars that still holds a card
C27_witness ==
    /\ "update_players" \in ran
    /\ marker.dead # {} /\ marker.safe # {}
    /\ cmds.dead = {} /\ cmds.safe = {}
    /\ \E p \in Players \ Marked : inventory[p].star >= 3 /\ num_cards(inventory[p]) > 0

(***************************************************************************)
(* Properties of the duel task, continued.                                 *)
(***************************************************************************)
\* C28: Transparent(e) records are private to e as Assistant(e) records are:
\* the history argument of every chat call on the actor of player X holds no
\* record Transparent(Y) with Y # X.
C28_transparent_private ==
    T1.call.method = "chat" =>
        \A k \in 1..Len(T1.call.hist) :
            T1.call.hist[k].kind = "Transparent" =>
                T1.call.hist[k].ent = At(T1.ent, T1.call.side)

\* what the filter does with them: every Transparent record of the shared
\* history is in the argument of every chat call
C28_transparent_passed ==
    T1.call.method = "chat" =>
        \A n \in 1..T1.call.arg[4] :
            T1.history[n].kind = "Transparent" =>
                \E k \in 1..Len(T1.call.hist) : T1.call.hist[k] = T1.history[n]

\* a chat call on one actor was handed the other player's Transparent record
C28_leaked ==
    /\ T1.call.method = "chat"
    /\ \E k \in 1..Len(T1.call.hist) :
          /\ T1.call.hist[k].kind = "Transparent"
          /\ T1.call.hist[k].ent # At(T1.ent, T1.call.side)

\* the last call, of `method`, got the history filtered for the callee's own
\* player and the other player as opponent
OwnView(method) ==
    T1.call.method = method =>
        /\ T1.call.hist = VisibleTo(At(T1.ent, T1.call.side))
        /\ T1.call.arg[2] = Other(T1.call.side)

\* the trade calls do
C29_trade_own_view == OwnView("trade")

\* C29: the bet stage is symmetric to the trade stage: every bet call of either
\* actor gets the history filtered for that actor's own player (Assistant(own)
\* kept, Assistant(other) removed) and the other player as opponent, as that
\* actor's trade calls do.
C29_bet_own_view == OwnView("bet") /\ C29_trade_own_view

\* what the second actor's bet call gets: the history filtered for the first player
C29_bet_first_view ==
    T1.call.method = "bet" =>
        /\ T1.call.hist = VisibleTo(At(T1.ent, 0))
        /\ T1.call.arg[2] = Other(T1.call.side)

\* the second actor's bet was handed the first player's Assistant record and
\* not its own
C29_bet_leaked ==
    /\ T1.call.method = "bet" /\ T1.call.side = 1
    /\ \E k \in 1..Len(T1.call.hist) :
          T1.call.hist[k].kind = "Assistant" /\ T1.call.hist[k].ent = At(T1.ent, 0)
    /\ \E n \in 1..Len(T1.history) :
          /\ T1.history[n].kind = "Assistant" /\ T1.history[n].ent = At(T1.ent, 1)
          /\ \A k \in 1..Len(T1.call.hist) : T1.call.hist[k] # T1.history[n]

\* side i holds no card of the kind it drew
NotHeld(t, cards, i) == CardsOf(At(t.inv, i))[At(cards, i)] = 0

\* a round of the duel stage in which split_duel rejected a card
RejectedRound == DuelStep /\ T1'.pc # "none" /\ T1'.call.fed # {}

\* the first offender alone is told
C30_first_offender ==
    RejectedRound =>
        LET bad == {i \in Side : NotHeld(T1, T1'.drew, i)}
        IN  /\ bad # {}
            /\ T1'.call.fed = {CHOOSE i \in bad : \A j \in bad : i <= j}

\* after a rejected round that is not the last, both actors are asked again
C30_both_again ==
    (RejectedRound /\ T1'.pc = "duel") => T1'.done = <<FALSE, FALSE>>

\* C30: in a round of the duel stage in which both actors return a card, every
\* actor whose card fails split_duel receives feedback_error before the pair is
\* asked again (both, when both cards are invalid), and in the retry both
\* actors' accept_duel is called again.
C30_every_offender ==
    [][(RejectedRound => (BothDrew(T1'.drew)
                            /\ T1'.call.fed = {i \in Side : NotHeld(T1, T1'.drew, i)}))
        /\ C30_both_again]_vars

\* what the loop does: it tells the first offender and asks both again
C30_first_only == [][C30_first_offender /\ C30_both_again]_vars

\* both cards were rejected and the second actor was not told
C30_second_untold ==
    /\ T1.pc = "duel" /\ T1.done = <<FALSE, FALSE>>
    /\ BothDrew(T1.drew)
    /\ \A i \in Side : NotHeld(T1, T1.drew, i)
    /\ T1.call.fed = {0}

(***************************************************************************)
(* C31: the error of Inventory::take                                       *)
(***************************************************************************)
\* the fields in the order the arms test them, with their variants
TakeOrder == <<"star", "coin", "rock", "paper", "scissors">>

VariantOf(field) ==
    CASE field = "star" -> "Star" [] field = "coin" -> "Coin" [] field = "rock" -> "Rock"
      [] field = "paper" -> "Paper" [] OTHER -> "Scissors"

\* the positions of the resources of which less is held than asked
Lacking(x, y) == {k \in 1..5 : x[TakeOrder[k]] < y[TakeOrder[k]]}

FirstLacking(x, y) == TakeOrder[CHOOSE k \in Lacking(x, y) : \A j \in Lacking(x, y) : k <= j]

TakeFailed == pout.op = "take" /\ ~pout.res.ok

\* C31: Inventory::take returns, for the first insufficient resource in the
\* order star, coin, rock, paper, scissors, the error variant of that resource
\* carrying (have, want) of that same resource.
C31_take_error ==
    TakeFailed =>
        LET f == FirstLacking(pin.inv, pin.trade)
        IN  /\ pout.res.err = VariantOf(f)
            /\ pout.res.have = pin.inv[f]
            /\ pout.res.want = pin.trade[f]

\* the variant is that of the first insufficient resource; the amounts are the stars'
C31_take_star_amounts ==
    /\ pout.op = "take" => (pout.res.ok <=> Lacking(pin.inv, pin.trade) = {})
    /\ TakeFailed =>
           /\ pout.res.err = VariantOf(FirstLacking(pin.inv, pin.trade))
           /\ pout.res.have = pin.inv.star
           /\ pout.res.want = pin.trade.star

\* a rock error that reports the stars
C31_rock_reports_stars ==
    /\ TakeFailed
    /\ pout.res.err = "Rock"
    /\ <<pout.res.have, pout.res.want>> # <<pin.inv.rock, pin.trade.rock>>
    /\ pout.res.have >= pout.res.want

(***************************************************************************)
(* C32: the shared history accumulates                                     *)
(***************************************************************************)
\* the records of a history that no filter removes
Plain(history) == LET keep(x) == x.kind # "Assistant" IN SelectSeq(history, keep)

\* `part` is `whole` with some records left out, the others in their order
Thinned(part, whole) ==
    LET keep(x) == \E k \in 1..Len(part) : part[k] = x
    IN  part = SelectSeq(whole, keep)

\* a step that made an actor call which is handed the history
HistoryCall == TaskStep /\ T1'.call # T1.call
                        /\ T1'.call.method \in {"chat", "bet", "accept_trade", "accept_duel"}

\* no step of the task removes or moves a record of the shared history
C32_append_only ==
    TaskStep => /\ Len(T1.history) <= Len(T1'.history)
                /\ \A k \in 1..Len(T1.history) : T1'.history[k] = T1.history[k]

\* a call is handed the whole history so far but for Assistant records
C32_handed ==
    HistoryCall => /\ Thinned(T1'.call.hist, T1.history)
                   /\ Plain(T1'.call.hist) = Plain(T1.history)

AllDummy == \A p \in Players : actor[p] = "Dummy"

Spawnt == {i \in TableIds : tasks[i].pc # "none"}

\* no task was told of an error, gave up or panicked
C33_clean ==
    \A i \in Spawnt : /\ tasks[i].call.fed = {}
                      /\ tasks[i].pc \notin {"err", "panic"}
                      /\ tasks[i].msg = ""

\* C33: when every player uses the default actor behaviour (trade one held
\* card, bet {star 1, coin 0}, draw a held card) no split ever fails:
\* feedback_error is never called, no duel task aborts or panics, and every
\* task returns Ok.
C33_dummy_never_fails == AllDummy => (C33_clean /\ ~crashed)

\* a task of default actors that traded, bet and fought returned Ok
C33_witness ==
    /\ AllDummy
    /\ \E i \in Spawnt :
          /\ tasks[i].pc = "ok"
          /\ tasks[i].swapped
          /\ num_cards(At(tasks[i].inv, 0)) < num_cards(At(tasks[i].start, 0))

(***************************************************************************)
(* C34: game over is final                                                 *)
(***************************************************************************)
\* every player on a table whose task runs could still be matched
C34_running_qualified ==
    \A i \in Unfinished : \A p \in Pair(i) : Qualified(p)

\* at game over nothing runs and no table is on its way
C34_quiet == is_game_over => (Unfinished = {} /\ cmds.spawn = {})

\* a step taken at game over leaves it game over and changes no inventory,
\* no timer, and creates no table
C34_final ==
    is_game_over => /\ is_game_over'
                    /\ inventory' = inventory
                    /\ timer' = timer
                    /\ cmds'.spawn = {}
                    /\ Live' \subseteq Live

\* C34: whenever the game-over predicate is true no duel task is unfinished
\* (every player on a table with a running task is alive, not safe and not
\* timed-up), and once the predicate is true it stays true forever: no table
\* is created afterwards and no inventory or timer changes.
C34_game_over_final == [](C34_running_qualified /\ C34_quiet) /\ [][C34_final]_vars

\* the systems run on after the game is over, a player having run out of time
C34_witness ==
    /\ is_game_over
    /\ ran = Systems
    /\ Live = {}
    /\ \E p \in Players : is_alive(inventory[p]) /\ timer[p] = 0

(***************************************************************************)
(* C35: dead and safe players are settled                                  *)
(***************************************************************************)
Dead(p) == inventory[p].star = 0

Safe(p) == inventory[p].star >= 3 /\ num_cards(inventory[p]) = 0

\* the inventory and the timer of a dead or safe player stay as they are
C35_frozen ==
    \A p \in Players :
        (Dead(p) \/ Safe(p)) => (inventory'[p] = inventory[p] /\ timer'[p] = timer[p])

\* the markers, set or about to be set, agree with the inventories
C35_agree ==
    /\ (marker.dead \cup cmds.dead) \cap (marker.safe \cup cmds.safe) = {}
    /\ \A p \in marker.dead \cup cmds.dead : Dead(p)
    /\ \A p \in marker.safe \cup cmds.safe : Safe(p)

\* C35: once a player's inventory has star = 0 or is safe (star >= 3 and no
\* cards), that inventory and the player's timer never change again; so a
\* player never carries both the dead and the safe marker, and a marker that
\* is set always agrees with the current inventory.
C35_settled == []C35_agree /\ [][C35_frozen]_vars

\* one player carries the dead marker, another the safe marker
C35_witness == marker.dead # {} /\ marker.safe # {} /\ ran = Systems

(***************************************************************************)
(* C36: the timer bounds the duels that return Ok                          *)
(***************************************************************************)
\* the rounds the timer of player p has counted
Played(p) == MAX_ROUNDS - timer[p]

\* the tables with a finished Err task that player p sits on
ErrTables(p) ==
    {i \in Finished : tasks[i].pc = "err" /\ p \in {tables[i].pair[1], tables[i].pair[2]}}

\* the timer counts the tasks that returned Ok, one each, and nothing else
C36_ok_counted ==
    \A p \in Players :
        IF PollStep /\ OkTables(p) # {}
        THEN Played(p) < MAX_ROUNDS /\ Played(p)' = Played(p) + 1
        ELSE Played(p)' = Played(p)

\* a task that returned Err costs its players nothing: they can be seated again
C36_err_free ==
    \A p \in Players :
        (PollStep /\ ErrTables(p) # {}) =>
            /\ OkTables(p) = {}
            /\ inventory'[p] = inventory[p]
            /\ Qualified(p)'

\* C36: over any run each player takes part in at most MAX_ROUNDS duel tasks
\* that resolve with Ok (the timer starts at MAX_ROUNDS and a timed-up player
\* is never matched), whereas the number of tasks that resolve with Err for a
\* player is not bounded by the timer.
C36_ok_bounded ==
    /\ \A p \in Spawned : Played(p) = 0
    /\ [](\A p \in Players : Played(p) \in 0..MAX_ROUNDS)
    /\ [][C36_ok_counted /\ C36_err_free]_vars

\* a player who has a round left after an Ok task and an Err task
C36_witness ==
    \E i \in Polled :
        /\ tasks[i].pc = "err"
        /\ \E k \in 1..2 : Played(tables[i].pair[k]) = 1 /\ MAX_ROUNDS > 1

(***************************************************************************)
(* SpecFair: the driver with three players of one star and one card, a     *)
(* Gambler or the trait's defaults behind player 1, under fair scheduling: *)
(* the app keeps ticking, and the task pool runs a task that can run.      *)
(***************************************************************************)
FairInit ==
    /\ inventory = [p \in Spawned |-> TablesInv]
    /\ timer = [p \in Players |-> MAX_ROUNDS]
    /\ actor \in DriverActors
    /\ Idle
    /\ tasks = [i \in TableIds |-> NoTask]
    /\ pin = NoValue
    /\ pout = NoValue

\* a step of the task on table id
TaskNext(id) ==
    \/ DuelLock(id)
    \/ DuelNotify(id)
    \/ DuelChat(id)
    \/ DuelTrade(id)
    \/ DuelAcceptTrade(id)
    \/ DuelFeedbackTrade(id)
    \/ DuelBet(id)
    \/ DuelAcceptDuel(id)
    \/ DuelFeedbackDuel(id)

SpecFair ==
    /\ FairInit
    /\ [][Next]_vars
    /\ WF_vars(Next)
    /\ \A id \in Slots(NUM_PLAYERS) : SF_vars(TaskNext(id))

(***************************************************************************)
(* C37: every task ends, every table is destroyed                          *)
(***************************************************************************)
\* how many of the two halves of a join! are still out
Out(flags) == (IF At(flags, 0) THEN 0 ELSE 1) + (IF At(flags, 1) THEN 0 ELSE 1)

\* the iterations actor i's trade or bet loop can still make
Tries(t, i) == IF At(t.got, i) = "run" THEN MAX_TRAIL_ROUNDS + 1 - At(t.try, i) ELSE 0

\* the actor calls (and lock acquisitions) the stage at hand can still make
StageLeft(t) ==
    CASE t.pc = "lock" -> Out(t.locked)
      [] t.pc \in {"chat_trade", "chat_duel"} -> 2 * (NUM_CHAT_ROUNDS - t.round) - t.turn
      [] t.pc \in {"trade", "bet"} -> Tries(t, 0) + Tries(t, 1)
      [] t.pc = "duel" -> 2 * (MAX_TRAIL_ROUNDS + 1 - t.round) + Out(t.done)
      [] OTHER -> Out(t.done)

\* the most steps one stage takes
StageMost == 2 * (MAX_TRAIL_ROUNDS + NUM_CHAT_ROUNDS + 2)

\* a bound on the steps a task can still take
Left(t) ==
    IF ~Running(t) THEN 0
    ELSE (Len(Stages) - StageNo(t.pc)) * StageMost + StageLeft(t) + 1

\* every step of a task brings it nearer to its end
C37_nearer ==
    \A i \in TableIds :
        (Running(tasks[i]) /\ tasks'[i] # tasks[i]) =>
            /\ Left(tasks'[i]) < Left(tasks[i])
            /\ StageLeft(tasks[i]) \in 1..StageMost

\* the loops stay within their bounds
C37_bounded ==
    \A i \in Spawnt :
        /\ tasks[i].pc \in {"chat_trade", "chat_duel"} => tasks[i].round < NUM_CHAT_ROUNDS
        /\ tasks[i].round <= MAX_TRAIL_ROUNDS + 1
        /\ \A k \in Side : At(tasks[i].try, k) <= MAX_TRAIL_ROUNDS + 1

\* a table without a task
Waiting(i) == tables[i] # NoTable /\ ~tables[i].task

\* a table with its task
Playing(i) == tables[i] # NoTable /\ tables[i].task

\* C37: provided every actor call returns, every duel task ends with Ok or Err
\* after a bounded number of actor calls (all loops are bounded by
\* NUM_CHAT_ROUNDS or MAX_TRAIL_ROUNDS + 1), and so, under fair ticking, every
\* table that is created is in the end given a task and in the end destroyed.
C37_tables_end ==
    /\ []C37_bounded
    /\ [][C37_nearer]_vars
    /\ \A i \in Slots(NUM_PLAYERS) :
          /\ Running(tasks[i]) ~> (tasks[i].pc \in {"ok", "err"})
          /\ Waiting(i) ~> Playing(i)
          /\ Playing(i) ~> ~Playing(i)

\* a task that used up the retries of its duel loop was polled, its table is to go
C37_witness ==
    \E i \in Polled :
        /\ tasks[i].pc = "err"
        /\ tasks[i].round = MAX_TRAIL_ROUNDS + 1
        /\ ran = Systems

(***************************************************************************)
(* C38: stars and coins are conserved, cards never grow                    *)
(***************************************************************************)
\* what the two players of a pair of inventories hold together
Both(invs, field) == At(invs, 0)[field] + At(invs, 1)[field]

BothCards(invs) == num_cards(At(invs, 0)) + num_cards(At(invs, 1))

\* what all the players hold together
AllOf(field) == SumOver(Players, [p \in Players |-> inventory[p][field]])

AllCards == SumOver(Players, [p \in Players |-> num_cards(inventory[p])])

\* the tables whose Ok result the step's poll writes back, a card drawn by each
Fought == {i \in Finished : tasks[i].pc = "ok" /\ BothDrew(tasks[i].cards)}

\* a task that returned Ok: what it returns against what it was spawned with
C38_task ==
    \A i \in Spawnt :
        tasks[i].pc = "ok" =>
            /\ Both(tasks[i].inv, "star") = Both(tasks[i].start, "star")
            /\ Both(tasks[i].inv, "coin") = Both(tasks[i].start, "coin")
            /\ BothCards(tasks[i].inv) =
                   BothCards(tasks[i].start) - (IF BothDrew(tasks[i].cards) THEN 2 ELSE 0)

\* the totals over all players, step by step
C38_totals ==
    /\ AllOf("star")' = AllOf("star")
    /\ AllOf("coin")' = AllOf("coin")
    /\ AllCards' = AllCards - (IF PollStep /\ ~crashed' THEN 2 * Cardinality(Fought) ELSE 0)

\* C38: for every duel task that returns Ok the two players' combined stars
\* and combined coins are the same after as before, and their combined card
\* count is lower by exactly 2 when both actors drew a card and unchanged
\* otherwise; so over the whole run the global star and coin totals are
\* constant and the global card total never increases.
C38_conserved == []C38_task /\ [][C38_totals]_vars

\* a duel with a winner was written back: the stars moved, two cards are gone
C38_witness ==
    \E i \in Polled :
        /\ tasks[i].pc = "ok"
        /\ BothDrew(tasks[i].cards)
        /\ At(tasks[i].inv, 0).star # At(tasks[i].start, 0).star
        /\ inventory[tables[i].pair[1]] = At(tasks[i].inv, 0)
        /\ inventory[tables[i].pair[2]] = At(tasks[i].inv, 1)

(***************************************************************************)
(* C39: a failed attempt leaves the snapshots alone                        *)
(***************************************************************************)
\* a step in which feedback_error was called
FailedStep == TaskStep /\ T1'.call.fed # {}

\* a failed attempt changes neither snapshot
C39_failed == FailedStep => T1'.inv = T1.inv

\* the trade and the bet stage replace the snapshots once, by the two splits,
\* in the step that ends the join! with both halves Some
C39_replaced ==
    (TaskStep /\ T1.pc \in {"trade", "bet"}) =>
        IF T1'.pc \in {"accept_trade", "duel"}
        THEN /\ T1'.call.fed = {}
             /\ At(T1.got, Other(T1'.call.side)) = "some"
             /\ At(T1'.inv, Other(T1'.call.side)) = At(T1.x, Other(T1'.call.side))
             /\ LET i == T1'.call.side
                    r == IF T1.pc = "trade" THEN split_trade(At(T1.inv, i), At(T1'.tr, i))
                         ELSE split_stake(At(T1.inv, i), At(T1'.stk, i))
                IN  r.ok /\ At(T1'.inv, i) = r.inv
        ELSE T1'.inv = T1.inv

\* the duel stage takes the two cards in one step, when both are held
C39_duel ==
    (DuelStep /\ T1'.pc # "none"
        /\ <<num_cards(At(T1'.inv, 0)), num_cards(At(T1'.inv, 1))>>
             # <<num_cards(At(T1.inv, 0)), num_cards(At(T1.inv, 1))>>) =>
        /\ BothDrew(T1'.cards)
        /\ T1'.call.fed = {}
        /\ \A i \in Side : /\ ~NotHeld(T1, T1'.cards, i)
                           /\ num_cards(At(T1'.inv, i)) = num_cards(At(T1.inv, i)) - 1

\* C39: a failed attempt inside a retry loop has no effect on the task's
\* snapshot inventories: the two snapshots are replaced only after both actors'
\* trade (or bet) loops have succeeded, and in the duel stage only after both
\* split_duel calls of the same round succeed, so a round in which the first
\* player's card is valid and the second's is not leaves the first player's
\* card count unchanged.
C39_failure_no_effect == [][C39_failed /\ C39_replaced /\ C39_duel]_vars

\* the first player's card was good, the second's was not: the first still
\* holds what the bet stage found
C39_witness ==
    /\ T1.pc = "duel" /\ T1.done = <<FALSE, FALSE>>
    /\ T1.call.fed = {1}
    /\ ~NotHeld(T1, T1.drew, 0)
    /\ NotHeld(T1, T1.drew, 1)
    /\ num_cards(At(T1.inv, 0)) = num_cards(At(T1.before, 0))

====
